---- MODULE Spec2Model ----
(***************************************************************************)
(* cldash: the transactional batch-execution core.                         *)
(*   transaction()  src/cldash/lib/transaction.ts                          *)
(*   parallel()     src/cldash/lib/parallel.ts                             *)
(*   retry()        src/cldash/lib/retry.ts                                *)
(*   exec()         src/cldash/lib/exec.ts                                 *)
(* Each primitive is one asynchronous call on the single-threaded event    *)
(* loop: an action of the model is one synchronous run of the code between *)
(* two awaits.  The step actions, compensations, tasks and operations are  *)
(* the environment: each settles with a value or an error chosen freely.   *)
(* The callbacks of transaction() may throw (its try blocks enclose them);  *)
(* onProgress and onRetry are taken to return.  Date.now() and the         *)
(* duration fields are not modelled.                                       *)
(***************************************************************************)
EXTENDS Integers, Sequences, FiniteSets

\* ---------------------------------------------------------------- bounds
MaxSteps == 4
MaxTasks == 4
MaxConcurrency == 3
MaxAttempts == 4
MaxChunks == 2
MaxFileLen == 2
MaxFileOps == 3
MaxFileSteps == 3
MaxRetryTasks == 3
MaxRetryAttempts == 2

\* ---------------------------------------------------------------- values
Vals == {"v1", "v2"}          \* what a step action / task / operation returns
StepErrs == {"e1", "e2"}      \* what a step action / task / operation throws
RbErrs == {"rbErr"}           \* what a compensation throws
CbErrs == {"cbErr"}           \* what a transaction callback throws
NoError == "undefined"        \* an absent error field
NoResult == [returned |-> FALSE]
\* a || b on a number: 0 (and undefined) is falsy
OrNum(a, b) == IF a = 0 THEN b ELSE a

VARIABLES
  \* transaction(steps, options)
  txN,               \* steps.length
  txOnStepComplete,  \* options.onStepComplete supplied
  txOnRollback,      \* options.onRollback supplied
  txPc,              \* position of the async function
  txI,               \* loop variable i of transaction (0-based)
  txResults,         \* results
  txCompleted,       \* completedSteps
  txError,           \* the error bound by the catch clause
  txRbLen,           \* steps.length inside rollbackSteps (the slice)
  txRbI,             \* loop variable i of rollbackSteps (0-based)
  txResult,          \* the TransactionResult the promise resolved with
  txLog              \* ordered log of what the environment observed

txVars == <<txN, txOnStepComplete, txOnRollback, txPc, txI, txResults,
            txCompleted, txError, txRbLen, txRbI, txResult, txLog>>

VARIABLES
  \* parallel(tasks, options)
  parN,            \* tasks.length
  parConcurrency,  \* options.concurrency
  parStopOnError,  \* options.stopOnError
  parOnProgress,   \* options.onProgress supplied
  parMain,         \* position of parallel() itself
  parIndex,        \* index: the shared cursor
  parResults,      \* results: one slot per task (0-based)
  parCompleted,    \* completed
  parSuccessful,   \* successful
  parFailed,       \* failed
  parWorkers,      \* the worker() calls: position and claimed taskIndex
  parResult,       \* the ParallelResult the promise resolved with
  parStarts,       \* observed: how often each task function was called
  parOutcome,      \* observed: how each task settled
  parAtFirstFail,  \* observed: the cursor when the first task failed
  parProgress,     \* observed: the arguments of each onProgress call
  parSettled       \* observed: the tasks in the order they settled

parVars == <<parN, parConcurrency, parStopOnError, parOnProgress, parMain,
             parIndex, parResults, parCompleted, parSuccessful, parFailed,
             parWorkers, parResult, parStarts, parOutcome, parAtFirstFail,
             parProgress, parSettled>>

VARIABLES
  \* retry(operation, options)
  rtAttempts,    \* options.attempts
  rtBackoff,     \* options.backoff
  rtMaxBackoff,  \* options.maxBackoff
  rtOnRetry,     \* options.onRetry supplied
  rtPc,          \* position of the async function
  rtAttempt,     \* loop variable attempt (1-based)
  rtLastError,   \* lastError
  rtOutcome,     \* how the promise of retry() settled
  rtLog          \* ordered log of what the environment observed

rtVars == <<rtAttempts, rtBackoff, rtMaxBackoff, rtOnRetry, rtPc, rtAttempt,
            rtLastError, rtOutcome, rtLog>>

VARIABLES
  \* exec(command, options)
  exCommand,   \* command
  exDryRun,    \* options.dryRun
  exOnData,    \* options.onData supplied
  exTimeout,   \* options.timeout (0: not supplied)
  exPc,        \* position of exec(): which promise it waits for
  exChild,     \* the child process
  exTimer,     \* the armed timeout in ms (0: no timer armed)
  exStdout,    \* the text collected from the child's stdout
  exStderr,    \* the text collected from the child's stderr
  exResult,    \* the ExecResult the promise resolved with
  exLog        \* ordered log of what the environment observed

exVars == <<exCommand, exDryRun, exOnData, exTimeout, exPc, exChild, exTimer,
            exStdout, exStderr, exResult, exLog>>

VARIABLES
  \* retryWithResult(operation, options)
  rwResult     \* the RetryResult the promise resolved with

rwVars == <<rwResult>>

VARIABLES
  \* fileTransaction(filePath, modifier)
  ftFile,      \* the bytes of the file at filePath
  ftModifier,  \* modifier
  ftBackup,    \* backup: [set |-> FALSE] while undefined
  ftPc,        \* position of the step's execute
  ftAtStart,   \* observed: the bytes of the file when execute last started
  ftLog        \* observed: the calls of execute and rollback that finished

ftVars == <<ftFile, ftModifier, ftBackup, ftPc, ftAtStart, ftLog>>

VARIABLES
  \* parallelFilter(items, predicate, options)
  pfKeep,      \* the indices of the items whose predicate resolves to true
  pfResult     \* the array the promise resolved with, as item indices

pfVars == <<pfKeep, pfResult>>

VARIABLES
  \* a step built by transactionStep(executeCmd, rollbackCmd)
  tsCalled,    \* which function of the step is called: execute or rollback
  tsOutcome    \* how the promise of that function settled

tsVars == <<tsCalled, tsOutcome>>

VARIABLES
  \* transaction(fileTransactions([...]))
  faFiles,     \* the bytes of each file
  faSteps,     \* the steps: the file and the modifier of each
  faBackups,   \* the backup variable of each step
  faPc,        \* position of transaction()
  faI,         \* the step being executed, then the step being compensated
  faCompleted, \* completedSteps
  faOrig       \* observed: the bytes of each file before the transaction

faVars == <<faFiles, faSteps, faBackups, faPc, faI, faCompleted, faOrig>>

VARIABLES
  \* parallelWithRetry(tasks, options)
  pwAttempts,  \* options.attempts
  pwRetries,   \* how often retry() invoked each task again after a failure
  pwSleeping   \* the tasks whose retry() is in its backoff sleep

pwVars == <<pwAttempts, pwRetries, pwSleeping>>

vars == <<txVars, parVars, rtVars, exVars, rwVars, ftVars, pfVars, tsVars, faVars, pwVars>>
notTx == <<parVars, rtVars, exVars, rwVars, ftVars, pfVars, tsVars, faVars, pwVars>>
notPar == <<txVars, rtVars, exVars, rwVars, ftVars, pfVars, tsVars, faVars, pwVars>>
notRt == <<txVars, parVars, exVars, rwVars, ftVars, pfVars, tsVars, faVars, pwVars>>
notEx == <<txVars, parVars, rtVars, rwVars, ftVars, pfVars, tsVars, faVars, pwVars>>
notRw == <<txVars, parVars, rtVars, exVars, ftVars, pfVars, tsVars, faVars, pwVars>>
notFt == <<txVars, parVars, rtVars, exVars, rwVars, pfVars, tsVars, faVars, pwVars>>
notPf == <<txVars, parVars, rtVars, exVars, rwVars, ftVars, tsVars, faVars, pwVars>>
notTs == <<txVars, parVars, rtVars, exVars, rwVars, ftVars, pfVars, faVars, pwVars>>
notFa == <<txVars, parVars, rtVars, exVars, rwVars, ftVars, pfVars, tsVars, pwVars>>
notPw == <<txVars, parVars, rtVars, exVars, rwVars, ftVars, pfVars, tsVars, faVars>>

\* ------------------------------------------------- transaction: the call
Ev(e, s, d) == [ev |-> e, step |-> s, data |-> d]

TxInit ==
  /\ txN \in 0..MaxSteps
  /\ txOnStepComplete \in BOOLEAN
  /\ txOnRollback \in BOOLEAN
  /\ txPc = "loop"
  /\ txI = 0
  /\ txResults = <<>>
  /\ txCompleted = 0
  /\ txError = NoError
  /\ txRbLen = 0
  /\ txRbI = 0
  /\ txResult = NoResult
  /\ txLog = <<>>

\* transaction() is not called
TxIdle ==
  /\ txN = 0 /\ txOnStepComplete = FALSE /\ txOnRollback = FALSE
  /\ txPc = "idle" /\ txI = 0 /\ txResults = <<>> /\ txCompleted = 0
  /\ txError = NoError /\ txRbLen = 0 /\ txRbI = 0 /\ txResult = NoResult
  /\ txLog = <<>>

\* ---------------------------------------------------------------- parallel
EmptySlot == [kind |-> "empty", of |-> -1]     \* a hole of new Array(n)
TaskValue(i) == [kind |-> "value", of |-> i]   \* what task i resolves with
TaskError(i) == [kind |-> "error", of |-> i]   \* what task i rejects with

\* before the call: const { concurrency = 10, onProgress, stopOnError = false }
ParInit ==
  /\ parN \in 0..MaxTasks
  /\ parConcurrency \in 0..MaxConcurrency
  /\ parStopOnError \in BOOLEAN
  /\ parOnProgress \in BOOLEAN
  /\ parMain = "call"
  /\ parIndex = 0
  /\ parResults = [i \in 0..(parN - 1) |-> EmptySlot]
  /\ parCompleted = 0
  /\ parSuccessful = 0
  /\ parFailed = 0
  /\ parWorkers = <<>>
  /\ parResult = NoResult
  /\ parStarts = [i \in 0..(parN - 1) |-> 0]
  /\ parOutcome = [i \in 0..(parN - 1) |-> "pending"]
  /\ parAtFirstFail = -1
  /\ parProgress = <<>>
  /\ parSettled = <<>>

\* parallel() is not called
ParIdle ==
  /\ parN = 0 /\ parConcurrency = 0 /\ parStopOnError = FALSE
  /\ parOnProgress = FALSE /\ parMain = "idle" /\ parIndex = 0
  /\ parResults = <<>> /\ parCompleted = 0 /\ parSuccessful = 0
  /\ parFailed = 0 /\ parWorkers = <<>> /\ parResult = NoResult
  /\ parStarts = <<>> /\ parOutcome = <<>> /\ parAtFirstFail = -1
  /\ parProgress = <<>>
  /\ parSettled = <<>>

\* ------------------------------------------------------------------- retry
DefaultBackoff == 1000
DefaultMaxBackoff == 30000
JitterRange == 1000
Backoffs == {0, DefaultBackoff}            \* options.backoff
MaxBackoffs == {1500, DefaultMaxBackoff}   \* options.maxBackoff
Jitters == {0, JitterRange - 1}            \* Math.random() * 1000, sampled
NoRetryError == [name |-> "none", originalError |-> NoError, attempts |-> 0]
RtPending == [kind |-> "pending", value |-> "", error |-> NoRetryError]

\* const { attempts = 3, backoff = 1000, maxBackoff = 30000, onRetry };
\* let lastError; attempt = 1
RtInit ==
  /\ rtAttempts \in 0..MaxAttempts
  /\ rtBackoff \in Backoffs
  /\ rtMaxBackoff \in MaxBackoffs
  /\ rtOnRetry \in BOOLEAN
  /\ rtPc = "loop"
  /\ rtAttempt = 1
  /\ rtLastError = NoError
  /\ rtOutcome = RtPending
  /\ rtLog = <<>>

\* retry() is not called
RtIdle ==
  /\ rtAttempts = 0 /\ rtBackoff = 0 /\ rtMaxBackoff = 0 /\ rtOnRetry = FALSE
  /\ rtPc = "idle" /\ rtAttempt = 1 /\ rtLastError = NoError
  /\ rtOutcome = RtPending /\ rtLog = <<>>

\* retryWithResult() has not resolved
RwInit == rwResult = NoResult

\* no step built by transactionStep() is in use
TsIdle == tsCalled = "none" /\ tsOutcome = "pending"

\* no transaction of fileTransaction steps is running
FaIdle ==
  /\ faFiles = <<>> /\ faSteps = <<>> /\ faBackups = <<>> /\ faPc = "idle"
  /\ faI = 0 /\ faCompleted = 0 /\ faOrig = <<>>

\* parallelWithRetry() is not called
PwIdle == pwAttempts = 0 /\ pwRetries = <<>> /\ pwSleeping = {}

\* parallelFilter() is not called
PfIdle == pfKeep = {} /\ pfResult = NoResult

\* --------------------------------------------------------- fileTransaction
\* a byte of the file: two ASCII letters, a byte that no UTF-8 text holds,
\* and the three bytes that encode U+FFFD
Bytes == {"a", "b", "xFF", "xEF", "xBF", "xBD"}
Ascii == {"a", "b"}
Replacement == "uFFFD"                     \* the character U+FFFD
ReplacementBytes == <<"xEF", "xBF", "xBD">>
Modifiers == {"append", "clear", "same", "throws"}
NoBackup == [set |-> FALSE, text |-> <<>>]

RECURSIVE SeqsUpTo(_, _)
SeqsUpTo(S, n) ==
  IF n = 0 THEN {<<>>}
  ELSE SeqsUpTo(S, n - 1) \cup
       {Append(q, x) : q \in {r \in SeqsUpTo(S, n - 1) : Len(r) = n - 1}, x \in S}

\* the step was created, nothing ran
FtInit ==
  /\ ftFile \in SeqsUpTo({"a", "xFF"}, MaxFileLen)
  /\ ftModifier \in Modifiers
  /\ ftBackup = NoBackup
  /\ ftPc = "ready"
  /\ ftAtStart = <<>>
  /\ ftLog = <<>>

\* no fileTransaction step exists
FtIdle ==
  /\ ftFile = <<>> /\ ftModifier = "same" /\ ftBackup = NoBackup
  /\ ftPc = "idle" /\ ftAtStart = <<>> /\ ftLog = <<>>

\* -------------------------------------------------------------------- exec
DefaultTimeout == 120000
Commands == {"cmd1", "cmd2"}            \* command
Timeouts == {0, 5000}                   \* options.timeout, 0: not supplied
Chunks == {<<"x">>, <<" ", "y", " ">>}  \* what the child writes at once
ExitCodes == {"0", "2"}                 \* the exit status of a child that exits
NullCode == "null"                      \* the code of a child ended by a signal

\* before the call
ExInit ==
  /\ exCommand \in Commands
  /\ exDryRun \in BOOLEAN
  /\ exOnData \in BOOLEAN
  /\ exTimeout \in Timeouts
  /\ exPc = "call"
  /\ exChild = "none"
  /\ exTimer = 0
  /\ exStdout = <<>>
  /\ exStderr = <<>>
  /\ exResult = NoResult
  /\ exLog = <<>>

\* exec() is not called
ExIdle ==
  /\ exCommand = "" /\ exDryRun = FALSE /\ exOnData = FALSE /\ exTimeout = 0
  /\ exPc = "idle" /\ exChild = "none" /\ exTimer = 0 /\ exStdout = <<>>
  /\ exStderr = <<>> /\ exResult = NoResult /\ exLog = <<>>

\* ------------------------------------------------------------ transaction
\* steps.slice(0, completedSteps) at lines 88 and 111: the number of steps
\* handed to rollbackSteps (i and completedSteps are both in scope there)
RollbackSlice_UpToI(i, completed) == i + 1
RollbackSlice(i, completed) == completed

\* for (let i = steps.length - 1; i >= 0; i--)
RollbackFirst(len) == len - 1
RollbackMore(i) == i >= 0
RollbackNext(i) == i - 1

\* results.push(result)
PushResult_Unshift(results, v) == <<v>> \o results
PushResult(results, v) == Append(results, v)

\* return { success: false, results, completedSteps, rolledBack: true, error }
AbortedResult_NoResults(results, completed, err) ==
  [returned |-> TRUE, success |-> FALSE, results |-> <<>>,
   completedSteps |-> completed, rolledBack |-> TRUE, error |-> err]
AbortedResult_NotRolledBack(results, completed, err) ==
  [returned |-> TRUE, success |-> FALSE, results |-> results,
   completedSteps |-> completed, rolledBack |-> FALSE, error |-> err]
AbortedResult(results, completed, err) ==
  [returned |-> TRUE, success |-> FALSE, results |-> results,
   completedSteps |-> completed, rolledBack |-> TRUE, error |-> err]

\* return { success: true, results, completedSteps, rolledBack: false }
CommittedResult(results, completed) ==
  [returned |-> TRUE, success |-> TRUE, results |-> results,
   completedSteps |-> completed, rolledBack |-> FALSE, error |-> NoError]

\* catch (error) { await rollbackSteps(steps.slice(0, completedSteps), onRollback)
\* up to the loop head of rollbackSteps
EnterRollback(err, completed) ==
  /\ txError' = err
  /\ txRbLen' = RollbackSlice(txI, completed)
  /\ txRbI' = RollbackFirst(RollbackSlice(txI, completed))
  /\ txPc' = "rbLoop"

\* loop head, i < steps.length: const step = steps[i]; step.execute() is called
TxStartStep ==
  /\ txPc = "loop"
  /\ txI < txN
  /\ txPc' = "awaitExecute"
  /\ txLog' = Append(txLog, Ev("execute", txI, ""))
  /\ UNCHANGED notTx
  /\ UNCHANGED <<txN, txOnStepComplete, txOnRollback, txI, txResults,
                 txCompleted, txError, txRbLen, txRbI, txResult>>

\* loop head, i = steps.length: all steps completed successfully
TxCommit ==
  /\ txPc = "loop"
  /\ ~(txI < txN)
  /\ txResult' = CommittedResult(txResults, txCompleted)
  /\ txPc' = "done"
  /\ UNCHANGED notTx
  /\ UNCHANGED <<txN, txOnStepComplete, txOnRollback, txI, txResults,
                 txCompleted, txError, txRbLen, txRbI, txLog>>

\* step.execute() resolved with v: push, completedSteps++, onStepComplete
\* returns (or is absent), i++
TxExecuteOk ==
  /\ txPc = "awaitExecute"
  /\ \E v \in Vals :
       /\ txResults' = PushResult(txResults, v)
       /\ txLog' = Append(txLog, Ev("executeOk", txI, v)) \o
                   (IF txOnStepComplete
                      THEN <<Ev("onStepComplete", txI + 1, txN)>> ELSE <<>>)
  /\ txCompleted' = txCompleted + 1
  /\ txI' = txI + 1
  /\ txPc' = "loop"
  /\ UNCHANGED notTx
  /\ UNCHANGED <<txN, txOnStepComplete, txOnRollback, txError, txRbLen,
                 txRbI, txResult>>

\* a bug the step's try block must not have: the step is counted only after
\* its callback returned
TxStepCallbackThrows_CountAfter ==
  /\ txPc = "awaitExecute"
  /\ txOnStepComplete
  /\ \E v \in Vals, e \in CbErrs :
       /\ txResults' = PushResult(txResults, v)
       /\ txLog' = Append(txLog, Ev("executeOk", txI, v)) \o
                   <<Ev("onStepComplete", txI + 1, txN),
                     Ev("onStepCompleteThrow", txI + 1, e)>>
       /\ EnterRollback(e, txCompleted)
  /\ UNCHANGED notTx
  /\ UNCHANGED <<txN, txOnStepComplete, txOnRollback, txI, txResult,
                 txCompleted>>

\* step.execute() resolved with v: push, completedSteps++, onStepComplete
\* throws inside the step's try block: the step's catch clause runs
TxStepCallbackThrows ==
  /\ txPc = "awaitExecute"
  /\ txOnStepComplete
  /\ \E v \in Vals, e \in CbErrs :
       /\ txResults' = PushResult(txResults, v)
       /\ txLog' = Append(txLog, Ev("executeOk", txI, v)) \o
                   <<Ev("onStepComplete", txI + 1, txN),
                     Ev("onStepCompleteThrow", txI + 1, e)>>
       /\ EnterRollback(e, txCompleted + 1)
  /\ txCompleted' = txCompleted + 1
  /\ UNCHANGED notTx
  /\ UNCHANGED <<txN, txOnStepComplete, txOnRollback, txI, txResult>>

\* a bug the step's catch clause must not have: the loop goes on
TxExecuteThrow_Continue ==
  /\ txPc = "awaitExecute"
  /\ \E e \in StepErrs :
       /\ txLog' = Append(txLog, Ev("executeThrow", txI, e))
       /\ txError' = e
  /\ txI' = txI + 1
  /\ txPc' = "loop"
  /\ UNCHANGED notTx
  /\ UNCHANGED <<txN, txOnStepComplete, txOnRollback, txResults,
                 txCompleted, txRbLen, txRbI, txResult>>

\* a bug the step's try block must not have: onStepComplete in a finally
TxExecuteThrow_Notifies ==
  /\ txPc = "awaitExecute"
  /\ \E e \in StepErrs :
       /\ txLog' = Append(txLog, Ev("executeThrow", txI, e)) \o
                   (IF txOnStepComplete
                      THEN <<Ev("onStepComplete", txI + 1, txN)>> ELSE <<>>)
       /\ EnterRollback(e, txCompleted)
  /\ UNCHANGED notTx
  /\ UNCHANGED <<txN, txOnStepComplete, txOnRollback, txI, txResults,
                 txCompleted, txResult>>

\* step.execute() rejected with e: the step's catch clause runs
TxExecuteThrow ==
  /\ txPc = "awaitExecute"
  /\ \E e \in StepErrs :
       /\ txLog' = Append(txLog, Ev("executeThrow", txI, e))
       /\ EnterRollback(e, txCompleted)
  /\ UNCHANGED notTx
  /\ UNCHANGED <<txN, txOnStepComplete, txOnRollback, txI, txResults,
                 txCompleted, txResult>>

\* rollbackSteps loop head, i >= 0: step.rollback() is called
TxRollbackStart ==
  /\ txPc = "rbLoop"
  /\ RollbackMore(txRbI)
  /\ txPc' = "awaitRollback"
  /\ txLog' = Append(txLog, Ev("rollback", txRbI, ""))
  /\ UNCHANGED notTx
  /\ UNCHANGED <<txN, txOnStepComplete, txOnRollback, txI, txResults,
                 txCompleted, txError, txRbLen, txRbI, txResult>>

\* rollbackSteps loop exit: rollbackSteps resolves and transaction returns
TxAbort ==
  /\ txPc = "rbLoop"
  /\ ~RollbackMore(txRbI)
  /\ txResult' = AbortedResult(txResults, txCompleted, txError)
  /\ txPc' = "done"
  /\ UNCHANGED notTx
  /\ UNCHANGED <<txN, txOnStepComplete, txOnRollback, txI, txResults,
                 txCompleted, txError, txRbLen, txRbI, txLog>>

\* a bug the sweep must not have: a compensated step's value is dropped
TxRollbackOk_PopsResult ==
  /\ txPc = "awaitRollback"
  /\ txLog' = Append(txLog, Ev("rollbackOk", txRbI, ""))
  /\ txResults' = SubSeq(txResults, 1, Len(txResults) - 1)
  /\ txRbI' = RollbackNext(txRbI)
  /\ txPc' = "rbLoop"
  /\ UNCHANGED notTx
  /\ UNCHANGED <<txN, txOnStepComplete, txOnRollback, txI,
                 txCompleted, txError, txRbLen, txResult>>

\* a bug the rollback callback must not have: the compensated step is
\* numbered from one, as the step-completion callback numbers it
TxRollbackOk_OneBased ==
  /\ txPc = "awaitRollback"
  /\ \E cb \in (IF txOnRollback THEN {"returns", "throws"} ELSE {"absent"}) :
       txLog' = Append(txLog, Ev("rollbackOk", txRbI, "")) \o
                (IF cb = "absent" THEN <<>>
                   ELSE <<Ev("onRollback", txRbI + 1, "")>>) \o
                (IF cb = "throws"
                   THEN <<Ev("consoleError", txRbI, "cbErr")>> ELSE <<>>)
  /\ txRbI' = RollbackNext(txRbI)
  /\ txPc' = "rbLoop"
  /\ UNCHANGED notTx
  /\ UNCHANGED <<txN, txOnStepComplete, txOnRollback, txI, txResults,
                 txCompleted, txError, txRbLen, txResult>>

\* step.rollback() resolved: onRollback(i, ...) if supplied; a throwing
\* onRollback lands in the same catch clause and is logged by console.error
TxRollbackOk ==
  /\ txPc = "awaitRollback"
  /\ \E cb \in (IF txOnRollback THEN {"returns", "throws"} ELSE {"absent"}) :
       txLog' = Append(txLog, Ev("rollbackOk", txRbI, "")) \o
                (IF cb = "absent" THEN <<>>
                   ELSE <<Ev("onRollback", txRbI, "")>>) \o
                (IF cb = "throws"
                   THEN <<Ev("consoleError", txRbI, "cbErr")>> ELSE <<>>)
  /\ txRbI' = RollbackNext(txRbI)
  /\ txPc' = "rbLoop"
  /\ UNCHANGED notTx
  /\ UNCHANGED <<txN, txOnStepComplete, txOnRollback, txI, txResults,
                 txCompleted, txError, txRbLen, txResult>>

\* a bug the sweep must not have: the first failing compensation ends it
TxRollbackThrow_Break ==
  /\ txPc = "awaitRollback"
  /\ \E e \in RbErrs :
       txLog' = Append(txLog, Ev("rollbackThrow", txRbI, e)) \o
                <<Ev("consoleError", txRbI, e)>>
  /\ txRbI' = -1
  /\ txPc' = "rbLoop"
  /\ UNCHANGED notTx
  /\ UNCHANGED <<txN, txOnStepComplete, txOnRollback, txI, txResults,
                 txCompleted, txError, txRbLen, txResult>>

\* step.rollback() rejected: catch (rollbackError) logs and the sweep goes on
TxRollbackThrow ==
  /\ txPc = "awaitRollback"
  /\ \E e \in RbErrs :
       txLog' = Append(txLog, Ev("rollbackThrow", txRbI, e)) \o
                <<Ev("consoleError", txRbI, e)>>
  /\ txRbI' = RollbackNext(txRbI)
  /\ txPc' = "rbLoop"
  /\ UNCHANGED notTx
  /\ UNCHANGED <<txN, txOnStepComplete, txOnRollback, txI, txResults,
                 txCompleted, txError, txRbLen, txResult>>

\* The outer catch clause (lines 109-121) runs only when something outside a
\* step's try block throws; rollbackSteps catches everything its loop raises,
\* so no behaviour of the environment modelled here reaches it.
NextTransaction ==
  \/ TxStartStep
  \/ TxCommit
  \/ TxExecuteOk
  \/ TxStepCallbackThrows
  \/ TxExecuteThrow
  \/ TxRollbackStart
  \/ TxAbort
  \/ TxRollbackOk
  \/ TxRollbackThrow

InitTransaction == TxInit /\ ParIdle /\ RtIdle /\ ExIdle /\ RwInit /\ FtIdle /\ PfIdle /\ TsIdle /\ FaIdle /\ PwIdle
SpecTransaction == InitTransaction /\ [][NextTransaction]_vars

\* every step action and compensation eventually settles, and the event loop
\* runs every continuation that is ready
SpecTransactionFair == SpecTransaction /\ WF_vars(NextTransaction)

\* ------------------------------------------------- transaction: the claims
TxDone == txPc = "done"
TxEvents(evs) == SelectSeq(txLog, LAMBDA r : r.ev \in evs)
TxStepsOf(evs) == [k \in DOMAIN TxEvents(evs) |-> TxEvents(evs)[k].step]
\* the values the step actions returned, in the order they returned
TxReturned == [k \in DOMAIN TxEvents({"executeOk"}) |-> TxEvents({"executeOk"})[k].data]
\* the steps whose action returned / threw
TxOkSteps == {r.step : r \in {txLog[k] : k \in {j \in DOMAIN txLog : txLog[j].ev = "executeOk"}}}
TxThrown == {txLog[k] : k \in {j \in DOMAIN txLog : txLog[j].ev = "executeThrow"}}
TxCallbackThrew == \E k \in DOMAIN txLog : txLog[k].ev = "onStepCompleteThrow"
\* the compensations started so far, in order
TxCompensated == TxStepsOf({"rollback"})
Descending(len) == [k \in 1..len |-> len - k]

\* C1: when the actions of steps 0..k-1 returned and the action of step k threw
\* e, transaction() returns success=false, completedSteps=k, rolledBack=true,
\* results = the k values returned, in order, and error = e (k = 0 included).
C1_AllOrNothing ==
  \A t \in TxThrown :
    /\ TxOkSteps = 0..(t.step - 1)
    /\ TxDone =>
         /\ txResult.returned
         /\ txResult.success = FALSE
         /\ txResult.completedSteps = t.step
         /\ txResult.rolledBack = TRUE
         /\ txResult.results = TxReturned
         /\ Len(txResult.results) = t.step
         /\ txResult.error = t.data

C1_Witness ==
  /\ TxDone
  /\ \E t \in TxThrown : t.step = 2 /\ t.data = "e2"
  /\ Len(txResult.results) = 2
  /\ txResult.results[1] # txResult.results[2]
  /\ txResult.completedSteps = 2

\* C2: the compensations started are, at every moment, a prefix of
\* completedSteps-1, ..., 1, 0 (so each at most once, in descending order, never
\* the failed step or one that never started), a compensation starts only
\* when the previous one has settled, and at return the sweep is complete.
C2_RollbackOrder ==
  /\ Len(TxCompensated) <= txCompleted
  /\ TxCompensated = SubSeq(Descending(txCompleted), 1, Len(TxCompensated))
  /\ Len(TxCompensated) > 0 => txPc \in {"rbLoop", "awaitRollback", "done"}
  /\ LET rb == TxEvents({"rollback", "rollbackOk", "rollbackThrow"})
     IN \A k \in DOMAIN rb :
          /\ (k % 2 = 1) => rb[k].ev = "rollback"
          /\ (k % 2 = 0) => rb[k].ev # "rollback" /\ rb[k].step = rb[k - 1].step
  /\ (TxDone /\ txResult.rolledBack) =>
        TxCompensated = Descending(txResult.completedSteps)

C2_Witness ==
  /\ TxDone
  /\ txResult.rolledBack
  /\ TxThrown # {}
  /\ txN = 4
  /\ TxCompensated = <<2, 1, 0>>

\* C3: a compensation that throws does not end the sweep: every earlier
\* completed step is still compensated, and the result has rolledBack=true and
\* the error that triggered the rollback, never the compensation's error.
C3_RollbackResilience ==
  (TxDone /\ \E k \in DOMAIN txLog : txLog[k].ev = "rollbackThrow") =>
     /\ \A j \in 0..(txResult.completedSteps - 1) :
          \E k \in DOMAIN txLog : txLog[k].ev = "rollback" /\ txLog[k].step = j
     /\ txResult.rolledBack = TRUE
     /\ txResult.error \notin RbErrs
     /\ \/ \E t \in TxThrown : txResult.error = t.data
        \/ \E k \in DOMAIN txLog :
             txLog[k].ev = "onStepCompleteThrow" /\ txResult.error = txLog[k].data

C3_Witness ==
  /\ TxDone
  /\ txResult.completedSteps = 3
  /\ \E k \in DOMAIN txLog : txLog[k].ev = "rollbackThrow" /\ txLog[k].step = 1
  /\ \E k \in DOMAIN txLog : txLog[k].ev = "rollbackOk" /\ txLog[k].step = 2
  /\ \E k \in DOMAIN txLog : txLog[k].ev = "rollbackOk" /\ txLog[k].step = 0
  /\ txResult.error \in StepErrs

\* C4 as stated: when all n step actions returned, transaction() returns the
\* committed result and no compensation is ever invoked.
TxCommitted ==
  /\ txResult.returned
  /\ txResult.success = TRUE
  /\ txResult.completedSteps = txN
  /\ txResult.rolledBack = FALSE
  /\ txResult.error = NoError
  /\ txResult.results = TxReturned
  /\ Len(txResult.results) = txN

C4_Original ==
  /\ TxOkSteps = 0..(txN - 1) => TxCompensated = <<>>
  /\ (TxDone /\ TxOkSteps = 0..(txN - 1)) => TxCommitted

\* C4 amended: when all n step actions returned and no step-completion
\* callback threw, transaction() returns success=true, completedSteps=n,
\* rolledBack=false, no error, results = the n values in order, and no
\* compensation is ever invoked.
C4_FullSuccess ==
  (TxOkSteps = 0..(txN - 1) /\ ~TxCallbackThrew) =>
     /\ TxCompensated = <<>>
     /\ TxDone => TxCommitted

C4_Witness ==
  /\ TxDone
  /\ txN = 3
  /\ TxOkSteps = 0..2
  /\ ~TxCallbackThrew
  /\ txOnStepComplete
  /\ txResult.success
  /\ txResult.results = <<"v1", "v2", "v1">>

\* ------------------------------------------------------ parallel: the code
Min(a, b) == IF a < b THEN a ELSE b

\* for (let i = 0; i < Math.min(concurrency, tasks.length); i++)
WorkerCount_OneMore(concurrency, n) == Min(concurrency, n) + 1
WorkerCount(concurrency, n) == Min(concurrency, n)

\* results[taskIndex] = result  /  results[taskIndex] = error
WriteSlot_ByCompletion(results, taskIndex, completed, outcome) ==
  [results EXCEPT ![completed] = outcome]
WriteSlot(results, taskIndex, completed, outcome) ==
  [results EXCEPT ![taskIndex] = outcome]

\* if (stopOnError) { throw error; }
Rethrows_Always(stopOnError) == TRUE
Rethrows(stopOnError) == stopOnError

\* a bug the finally block must not have: the callback sees the old counter
ProgressCalls_BeforeIncrement(completed) ==
  IF parOnProgress THEN Append(parProgress, <<completed - 1, parN>>)
                   ELSE parProgress

\* finally { completed++; if (onProgress) onProgress(completed, tasks.length) }
ProgressCalls(completed) ==
  IF parOnProgress THEN Append(parProgress, <<completed, parN>>) ELSE parProgress

\* the worker() calls of the start loop, in order: each runs synchronously to
\* its first await, so worker k claims index k-1 while index < tasks.length
StartedWorkers(count) ==
  [k \in 1..count |->
     IF k - 1 < parN THEN [pc |-> "awaitTask", task |-> k - 1]
                     ELSE [pc |-> "done", task |-> -1]]

\* lines 49-93: locals, the start loop, up to await Promise.all(workers)
ParStart ==
  /\ parMain = "call"
  /\ LET count == WorkerCount(parConcurrency, parN)
         claimed == Min(count, parN)
     IN /\ parWorkers' = StartedWorkers(count)
        /\ parIndex' = claimed
        /\ parStarts' = [i \in 0..(parN - 1) |-> IF i < claimed THEN 1 ELSE 0]
  /\ parMain' = "awaitAll"
  /\ UNCHANGED notPar
  /\ UNCHANGED <<parN, parConcurrency, parStopOnError, parOnProgress,
                 parResults, parCompleted, parSuccessful, parFailed,
                 parResult, parOutcome, parAtFirstFail, parProgress, parSettled>>

\* executeTask, try branch: the task of worker w resolved
ParTaskResolves(w) ==
  /\ parWorkers[w].pc = "awaitTask"
  /\ LET t == parWorkers[w].task
     IN /\ parResults' = WriteSlot(parResults, t, parCompleted, TaskValue(t))
        /\ parOutcome' = [parOutcome EXCEPT ![t] = "value"]
  /\ parSuccessful' = parSuccessful + 1
  /\ parCompleted' = parCompleted + 1
  /\ parProgress' = ProgressCalls(parCompleted + 1)
  /\ parSettled' = Append(parSettled, parWorkers[w].task)
  /\ parWorkers' = [parWorkers EXCEPT ![w].pc = "resume"]
  /\ UNCHANGED notPar
  /\ UNCHANGED <<parN, parConcurrency, parStopOnError, parOnProgress, parMain,
                 parIndex, parFailed, parResult, parStarts, parAtFirstFail>>

\* executeTask, catch branch: the task of worker w rejected
ParTaskRejects(w) ==
  /\ parWorkers[w].pc = "awaitTask"
  /\ LET t == parWorkers[w].task
     IN /\ parResults' = WriteSlot(parResults, t, parCompleted, TaskError(t))
        /\ parOutcome' = [parOutcome EXCEPT ![t] = "error"]
  /\ parFailed' = parFailed + 1
  /\ parCompleted' = parCompleted + 1
  /\ parProgress' = ProgressCalls(parCompleted + 1)
  /\ parSettled' = Append(parSettled, parWorkers[w].task)
  /\ parWorkers' = [parWorkers EXCEPT
                      ![w].pc = IF Rethrows(parStopOnError) THEN "resumeThrow"
                                                            ELSE "resume"]
  /\ parAtFirstFail' = IF parAtFirstFail = -1 THEN parIndex ELSE parAtFirstFail
  /\ UNCHANGED notPar
  /\ UNCHANGED <<parN, parConcurrency, parStopOnError, parOnProgress, parMain,
                 parIndex, parSuccessful, parResult, parStarts>>

\* a bug the claim must not have: the cursor is read but not advanced
ParWorkerClaims_NoIncrement(w) ==
  /\ parWorkers[w].pc = "resume"
  /\ parIndex < parN
  /\ parWorkers' = [parWorkers EXCEPT ![w] = [pc |-> "awaitTask", task |-> parIndex]]
  /\ parStarts' = [parStarts EXCEPT ![parIndex] = @ + 1]
  /\ UNCHANGED notPar
  /\ UNCHANGED <<parN, parConcurrency, parStopOnError, parOnProgress, parMain,
                 parIndex, parResults, parCompleted, parSuccessful, parFailed,
                 parResult, parOutcome, parAtFirstFail, parProgress, parSettled>>

\* worker: while (index < tasks.length) { currentIndex = index++; executeTask(..)
ParWorkerClaims(w) ==
  /\ parWorkers[w].pc = "resume"
  /\ parIndex < parN
  /\ parWorkers' = [parWorkers EXCEPT ![w] = [pc |-> "awaitTask", task |-> parIndex]]
  /\ parStarts' = [parStarts EXCEPT ![parIndex] = @ + 1]
  /\ parIndex' = parIndex + 1
  /\ UNCHANGED notPar
  /\ UNCHANGED <<parN, parConcurrency, parStopOnError, parOnProgress, parMain,
                 parResults, parCompleted, parSuccessful, parFailed, parResult,
                 parOutcome, parAtFirstFail, parProgress, parSettled>>

\* worker: the cursor is exhausted, the worker's promise resolves
ParWorkerExits(w) ==
  /\ parWorkers[w].pc = "resume"
  /\ ~(parIndex < parN)
  /\ parWorkers' = [parWorkers EXCEPT ![w].pc = "done"]
  /\ UNCHANGED notPar
  /\ UNCHANGED <<parN, parConcurrency, parStopOnError, parOnProgress, parMain,
                 parIndex, parResults, parCompleted, parSuccessful, parFailed,
                 parResult, parStarts, parOutcome, parAtFirstFail, parProgress, parSettled>>

\* worker: await executeTask(currentIndex) threw, the worker's promise rejects
ParWorkerRejects(w) ==
  /\ parWorkers[w].pc = "resumeThrow"
  /\ parWorkers' = [parWorkers EXCEPT ![w].pc = "rejected"]
  /\ UNCHANGED notPar
  /\ UNCHANGED <<parN, parConcurrency, parStopOnError, parOnProgress, parMain,
                 parIndex, parResults, parCompleted, parSuccessful, parFailed,
                 parResult, parStarts, parOutcome, parAtFirstFail, parProgress, parSettled>>

\* return { results, successful, failed, duration }: results is the live
\* array (parResults); atReturn is its content at this moment
ParallelResult(how) ==
  [returned |-> TRUE, settled |-> how, atReturn |-> parResults,
   successful |-> parSuccessful, failed |-> parFailed]

\* await Promise.all(workers) resolved: every worker's promise resolved
ParReturns ==
  /\ parMain = "awaitAll"
  /\ \A w \in DOMAIN parWorkers : parWorkers[w].pc = "done"
  /\ parResult' = ParallelResult("resolved")
  /\ parMain' = "returned"
  /\ UNCHANGED notPar
  /\ UNCHANGED <<parN, parConcurrency, parStopOnError, parOnProgress,
                 parIndex, parResults, parCompleted, parSuccessful, parFailed,
                 parWorkers, parStarts, parOutcome, parAtFirstFail, parProgress, parSettled>>

\* a bug the return must not have: the tasks still in flight are cancelled
ParReturnsAfterError_Cancels ==
  /\ parMain = "awaitAll"
  /\ \E w \in DOMAIN parWorkers : parWorkers[w].pc = "rejected"
  /\ parResult' = ParallelResult("resolved")
  /\ parMain' = "returned"
  /\ parWorkers' = [w \in DOMAIN parWorkers |->
                      IF parWorkers[w].pc = "awaitTask"
                      THEN [parWorkers[w] EXCEPT !.pc = "done"]
                      ELSE parWorkers[w]]
  /\ UNCHANGED notPar
  /\ UNCHANGED <<parN, parConcurrency, parStopOnError, parOnProgress,
                 parIndex, parResults, parCompleted, parSuccessful, parFailed,
                 parStarts, parOutcome, parAtFirstFail, parProgress,
                 parSettled>>

\* a bug the empty catch clause must not have: the error is thrown again
ParReturnsAfterError_Rethrow ==
  /\ parMain = "awaitAll"
  /\ \E w \in DOMAIN parWorkers : parWorkers[w].pc = "rejected"
  /\ parResult' = ParallelResult("rejected")
  /\ parMain' = "returned"
  /\ UNCHANGED notPar
  /\ UNCHANGED <<parN, parConcurrency, parStopOnError, parOnProgress,
                 parIndex, parResults, parCompleted, parSuccessful, parFailed,
                 parWorkers, parStarts, parOutcome, parAtFirstFail, parProgress,
                 parSettled>>

\* await Promise.all(workers) rejected (some worker's promise rejected): the
\* catch clause is empty and parallel() returns normally
ParReturnsAfterError ==
  /\ parMain = "awaitAll"
  /\ \E w \in DOMAIN parWorkers : parWorkers[w].pc = "rejected"
  /\ parResult' = ParallelResult("resolved")
  /\ parMain' = "returned"
  /\ UNCHANGED notPar
  /\ UNCHANGED <<parN, parConcurrency, parStopOnError, parOnProgress,
                 parIndex, parResults, parCompleted, parSuccessful, parFailed,
                 parWorkers, parStarts, parOutcome, parAtFirstFail, parProgress, parSettled>>

NextParallel ==
  \/ ParStart
  \/ \E w \in DOMAIN parWorkers : ParTaskResolves(w)
  \/ \E w \in DOMAIN parWorkers : ParTaskRejects(w)
  \/ \E w \in DOMAIN parWorkers : ParWorkerClaims(w)
  \/ \E w \in DOMAIN parWorkers : ParWorkerExits(w)
  \/ \E w \in DOMAIN parWorkers : ParWorkerRejects(w)
  \/ ParReturns
  \/ ParReturnsAfterError

InitParallel == TxIdle /\ ParInit /\ RtIdle /\ ExIdle /\ RwInit /\ FtIdle /\ PfIdle /\ TsIdle /\ FaIdle /\ PwIdle
SpecParallel == InitParallel /\ [][NextParallel]_vars

\* ---------------------------------------------------- parallel: the claims
ParReturned == parResult.returned
ParTasks == 0..(parN - 1)
\* the tasks started and not yet settled
ParInFlight == {i \in ParTasks : parStarts[i] > 0 /\ parOutcome[i] = "pending"}
SlotHoldsTask(slot, i) == slot.of = i /\ slot.kind = parOutcome[i]

\* C5: results has exactly N slots, every slot that has been filled holds the
\* value or the error of the task with the same index, in the live array and
\* in the array as returned, and with stopOnError=false (concurrency >= 1)
\* every slot of the returned array is filled.
C5_SlotCorrelation ==
  /\ parMain # "idle" => DOMAIN parResults = ParTasks
  /\ \A i \in DOMAIN parResults :
       parResults[i] # EmptySlot => SlotHoldsTask(parResults[i], i)
  /\ ParReturned =>
       /\ DOMAIN parResult.atReturn = ParTasks
       /\ \A i \in ParTasks :
            parResult.atReturn[i] # EmptySlot =>
               SlotHoldsTask(parResult.atReturn[i], i)
       /\ (~parStopOnError /\ parConcurrency >= 1) =>
            \A i \in ParTasks : parResult.atReturn[i] # EmptySlot

\* tasks settle in an order other than the input order, some fail
C5_Witness ==
  /\ ParReturned
  /\ parN = 4
  /\ parConcurrency = 3
  /\ ~parStopOnError
  /\ parSettled = <<2, 0, 3, 1>>
  /\ parResult.atReturn[0] = TaskError(0)
  /\ parResult.atReturn[1] = TaskValue(1)
  /\ parResult.atReturn[2] = TaskValue(2)
  /\ parResult.atReturn[3] = TaskError(3)

\* C6: at every instant the number of tasks started and not yet settled is at
\* most the configured concurrency (>= 1) and at most N.
C6_ConcurrencyCeiling ==
  parConcurrency >= 1 =>
     /\ Cardinality(ParInFlight) <= parConcurrency
     /\ Cardinality(ParInFlight) <= parN

\* the ceiling is reached again after a task settled, with tasks unclaimed
C6_Witness ==
  /\ parN = 4
  /\ parConcurrency = 2
  /\ Cardinality(ParInFlight) = 2
  /\ parIndex = 3
  /\ Len(parSettled) = 1

\* C9: with stopOnError=false and concurrency >= 1, parallel() returns only
\* when all N tasks have settled, it resolves, and in the result
\* successful + failed = N, successful = the number of slots holding a value
\* and failed = the number of slots holding an error.
C9_NoAbortOnFailure ==
  (ParReturned /\ ~parStopOnError /\ parConcurrency >= 1) =>
     /\ parResult.settled = "resolved"
     /\ \A i \in ParTasks : parStarts[i] = 1 /\ parOutcome[i] # "pending"
     /\ ParInFlight = {}
     /\ parResult.successful + parResult.failed = parN
     /\ parResult.successful =
          Cardinality({i \in ParTasks : parResult.atReturn[i].kind = "value"})
     /\ parResult.failed =
          Cardinality({i \in ParTasks : parResult.atReturn[i].kind = "error"})

C9_Witness ==
  /\ ParReturned
  /\ ~parStopOnError
  /\ parN = 4
  /\ parConcurrency = 2
  /\ parSettled[1] = 0
  /\ parOutcome[0] = "error"
  /\ parResult.failed = 2
  /\ parResult.successful = 2

\* C10 as stated: with stopOnError=true no task that was unclaimed when the
\* first task failed (index >= the cursor at that moment) is ever started.
C10_NoStartAfterFailure ==
  (parStopOnError /\ parAtFirstFail >= 0) =>
     \A i \in ParTasks : i >= parAtFirstFail => parStarts[i] = 0

\* --------------------------------------------------------- retry: the code
RECURSIVE Pow2(_)
Pow2(k) == IF k <= 0 THEN 1 ELSE 2 * Pow2(k - 1)

\* for (...; attempt <= attempts; ...)
RetryMore_OffByOne(attempt, attempts) == attempt < attempts
RetryMore(attempt, attempts) == attempt <= attempts

WillRetry_Always(attempt, attempts) == TRUE

\* if (attempt < attempts)
WillRetry(attempt, attempts) == attempt < attempts

Delay_Uncapped(backoff, attempt, jitter, maxBackoff) ==
  backoff * Pow2(attempt - 1) + jitter

\* Math.min(backoff * Math.pow(2, attempt - 1) + Math.random() * 1000, maxBackoff)
Delay(backoff, attempt, jitter, maxBackoff) ==
  Min(backoff * Pow2(attempt - 1) + jitter, maxBackoff)

\* if (onRetry) { onRetry(attempt, lastError); }
RetryCallback_SkipFirst(attempt, error) ==
  IF rtOnRetry /\ attempt > 1 THEN <<Ev("onRetry", attempt, error)>> ELSE <<>>
RetryCallback(attempt, error) ==
  IF rtOnRetry THEN <<Ev("onRetry", attempt, error)>> ELSE <<>>

\* new RetryError(message, lastError!, attempts, Date.now() - startTime)
RetryError(lastError, attempts) ==
  [name |-> "RetryError", originalError |-> lastError, attempts |-> attempts]

\* loop head, attempt <= attempts: operation() is called
RtCall ==
  /\ rtPc = "loop"
  /\ RetryMore(rtAttempt, rtAttempts)
  /\ rtPc' = "awaitOp"
  /\ rtLog' = Append(rtLog, Ev("call", rtAttempt, ""))
  /\ UNCHANGED notRt
  /\ UNCHANGED <<rtAttempts, rtBackoff, rtMaxBackoff, rtOnRetry, rtAttempt,
                 rtLastError, rtOutcome>>

\* loop exit: throw new RetryError(...)
RtExhausted ==
  /\ rtPc = "loop"
  /\ ~RetryMore(rtAttempt, rtAttempts)
  /\ rtOutcome' = [kind |-> "thrown", value |-> "",
                   error |-> RetryError(rtLastError, rtAttempts)]
  /\ rtPc' = "thrown"
  /\ UNCHANGED notRt
  /\ UNCHANGED <<rtAttempts, rtBackoff, rtMaxBackoff, rtOnRetry, rtAttempt,
                 rtLastError, rtLog>>

\* operation() resolved: return result
RtOpResolves ==
  /\ rtPc = "awaitOp"
  /\ \E v \in Vals :
       /\ rtOutcome' = [kind |-> "returned", value |-> v, error |-> NoRetryError]
       /\ rtLog' = Append(rtLog, Ev("resolve", rtAttempt, v))
  /\ rtPc' = "returned"
  /\ UNCHANGED notRt
  /\ UNCHANGED <<rtAttempts, rtBackoff, rtMaxBackoff, rtOnRetry, rtAttempt,
                 rtLastError>>

\* operation() rejected and attempts remain: delay, onRetry, setTimeout
RtOpRejectsRetry ==
  /\ rtPc = "awaitOp"
  /\ WillRetry(rtAttempt, rtAttempts)
  /\ \E e \in StepErrs, jitter \in Jitters :
       /\ rtLastError' = e
       /\ rtLog' = Append(rtLog, Ev("reject", rtAttempt, e)) \o
                   RetryCallback(rtAttempt, e) \o
                   <<Ev("sleep", rtAttempt,
                        Delay(rtBackoff, rtAttempt, jitter, rtMaxBackoff))>>
  /\ rtPc' = "sleeping"
  /\ UNCHANGED notRt
  /\ UNCHANGED <<rtAttempts, rtBackoff, rtMaxBackoff, rtOnRetry, rtAttempt,
                 rtOutcome>>

\* operation() rejected on the last attempt: lastError = error; attempt++
RtOpRejectsLast ==
  /\ rtPc = "awaitOp"
  /\ ~WillRetry(rtAttempt, rtAttempts)
  /\ \E e \in StepErrs :
       /\ rtLastError' = e
       /\ rtLog' = Append(rtLog, Ev("reject", rtAttempt, e))
  /\ rtAttempt' = rtAttempt + 1
  /\ rtPc' = "loop"
  /\ UNCHANGED notRt
  /\ UNCHANGED <<rtAttempts, rtBackoff, rtMaxBackoff, rtOnRetry, rtOutcome>>

\* the timer fired: attempt++
RtWake ==
  /\ rtPc = "sleeping"
  /\ rtAttempt' = rtAttempt + 1
  /\ rtPc' = "loop"
  /\ rtLog' = Append(rtLog, Ev("wake", rtAttempt, ""))
  /\ UNCHANGED notRt
  /\ UNCHANGED <<rtAttempts, rtBackoff, rtMaxBackoff, rtOnRetry, rtLastError,
                 rtOutcome>>

NextRetry ==
  \/ RtCall
  \/ RtExhausted
  \/ RtOpResolves
  \/ RtOpRejectsRetry
  \/ RtOpRejectsLast
  \/ RtWake

InitRetry == TxIdle /\ ParIdle /\ RtInit /\ ExIdle /\ RwInit /\ FtIdle /\ PfIdle /\ TsIdle /\ FaIdle /\ PwIdle
SpecRetry == InitRetry /\ [][NextRetry]_vars

\* ------------------------------------------------- retryWithResult: the code
DefaultAttempts == 3

\* attempts: options.attempts || 3
ReportedAttempts(attempts) == OrNum(attempts, DefaultAttempts)

\* return { success: true, result, attempts, totalDuration }
RetryResultOk(result, attempts) ==
  [returned |-> TRUE, success |-> TRUE, result |-> result,
   error |-> NoRetryError, attempts |-> attempts]

\* return { success: false, error, attempts, totalDuration }
RetryResultFail_Success(error, attempts) ==
  [returned |-> TRUE, success |-> TRUE, result |-> "",
   error |-> error, attempts |-> attempts]
RetryResultFail(error, attempts) ==
  [returned |-> TRUE, success |-> FALSE, result |-> "",
   error |-> error, attempts |-> attempts]

\* await retry(operation, options) returned
RwReturns ==
  /\ ~rwResult.returned
  /\ rtOutcome.kind = "returned"
  /\ rwResult' = RetryResultOk(rtOutcome.value, ReportedAttempts(rtAttempts))
  /\ UNCHANGED notRw

\* await retry(operation, options) threw: catch (error)
RwCatches ==
  /\ ~rwResult.returned
  /\ rtOutcome.kind = "thrown"
  /\ rwResult' = RetryResultFail(rtOutcome.error, ReportedAttempts(rtAttempts))
  /\ UNCHANGED notRw

NextRetryWithResult ==
  \/ NextRetry
  \/ RwReturns
  \/ RwCatches

SpecRetryWithResult == InitRetry /\ [][NextRetryWithResult]_vars

\* ------------------------------------------------------- retry: the claims
RtEvents(evs) == SelectSeq(rtLog, LAMBDA r : r.ev \in evs)
RtCalls == Len(RtEvents({"call"}))
RtRejects == RtEvents({"reject"})
RtResolves == RtEvents({"resolve"})
RtCallbacks == RtEvents({"onRetry"})
RtSettled == rtPc \in {"returned", "thrown"}

\* C7: when every attempt fails and attempts = a >= 1, the operation is never
\* invoked more than a times, retry() never returns a value, and it throws
\* only after exactly a invocations: a RetryError (a class of its own, named
\* RetryError, wrapping the underlying error) with attempts = a and
\* originalError = the error of the last attempt.
C7_Exhaustion ==
  (rtAttempts >= 1 /\ Len(RtResolves) = 0) =>
     /\ RtCalls <= rtAttempts
     /\ rtOutcome.kind # "returned"
     /\ Len(RtRejects) = rtAttempts => rtPc \in {"loop", "thrown"}
     /\ rtPc = "thrown" =>
          /\ RtCalls = rtAttempts
          /\ Len(RtRejects) = rtAttempts
          /\ rtOutcome.kind = "thrown"
          /\ rtOutcome.error.name = "RetryError"
          /\ rtOutcome.error.attempts = rtAttempts
          /\ rtOutcome.error.originalError = RtRejects[rtAttempts].data

C7_Witness ==
  /\ rtPc = "thrown"
  /\ rtAttempts = 3
  /\ RtCalls = 3
  /\ RtRejects[1].data = "e2" /\ RtRejects[2].data = "e2" /\ RtRejects[3].data = "e1"
  /\ rtOutcome.error = RetryError("e1", 3)

\* C8: when the operation fails f times and then succeeds (f < attempts),
\* retry() returns the value of the successful attempt with nothing happening
\* in between, the operation was invoked f + 1 times, and the retry callback,
\* when supplied, was invoked exactly f times, once after each failure.
C8_SuccessAfterFailures ==
  Len(RtResolves) > 0 =>
     LET f == Len(RtRejects)
     IN /\ f < rtAttempts
        /\ rtPc = "returned"
        /\ rtLog[Len(rtLog)].ev = "resolve"
        /\ Len(RtResolves) = 1
        /\ rtOutcome.kind = "returned"
        /\ rtOutcome.value = RtResolves[1].data
        /\ RtCalls = f + 1
        /\ Len(RtCallbacks) = IF rtOnRetry THEN f ELSE 0
        /\ \A k \in DOMAIN RtCallbacks :
             /\ RtCallbacks[k].step = k
             /\ RtCallbacks[k].data = RtRejects[k].data

C8_Witness ==
  /\ rtPc = "returned"
  /\ rtAttempts = 3
  /\ rtOnRetry
  /\ Len(RtRejects) = 2
  /\ Len(RtCallbacks) = 2
  /\ RtCalls = 3
  /\ rtOutcome.value = "v2"

\* ------------------------------------------ parallel: the claims, continued
\* C11 as stated: with stopOnError=true, when a task has failed the call
\* rejects instead of resolving with a result object.
C11_FailurePropagates ==
  (ParReturned /\ parStopOnError /\ parResult.failed >= 1) =>
     parResult.settled = "rejected"

\* C11 amended: with stopOnError=true, when a task has failed the call still
\* resolves with a result object (the catch clause around Promise.all is
\* empty); the failure is reported in it: failed >= 1 and the slot of a
\* failed task holds its error.
C11_FailureReported ==
  (ParReturned /\ parStopOnError /\ parAtFirstFail >= 0) =>
     /\ parResult.settled = "resolved"
     /\ \E w \in DOMAIN parWorkers : parWorkers[w].pc = "rejected"
     /\ parResult.failed >= 1
     /\ \E i \in ParTasks : parResult.atReturn[i] = TaskError(i)

\* returned on the first failure while another task is still running
C11_Witness ==
  /\ ParReturned
  /\ parStopOnError
  /\ parN = 3
  /\ parResult.failed = 1
  /\ parResult.atReturn[1] = TaskError(1)
  /\ parResult.atReturn[0] = EmptySlot
  /\ 0 \in ParInFlight

\* --------------------------------------- transaction: the claims, continued
TxCalls == TxEvents({"execute", "executeOk", "executeThrow",
                     "rollback", "rollbackOk", "rollbackThrow"})
TxIsStart(r) == r.ev \in {"execute", "rollback"}
TxSettles(r, q) ==
  /\ q.step = r.step
  /\ r.ev = "execute" => q.ev \in {"executeOk", "executeThrow"}
  /\ r.ev = "rollback" => q.ev \in {"rollbackOk", "rollbackThrow"}

\* C12: step actions start in index order, step i+1 only after step i's
\* action returned; calls into step actions and compensations alternate
\* start / settle, so at most one is in flight; after a step's action threw
\* no step action is started.
C12_Sequential ==
  /\ TxStepsOf({"execute"}) = [k \in 1..Len(TxStepsOf({"execute"})) |-> k - 1]
  /\ \A k \in DOMAIN TxCalls :
       /\ (k % 2 = 1) => TxIsStart(TxCalls[k])
       /\ (k % 2 = 0) => ~TxIsStart(TxCalls[k]) /\ TxSettles(TxCalls[k - 1], TxCalls[k])
  /\ \A k \in DOMAIN txLog :
       (txLog[k].ev = "execute" /\ txLog[k].step > 0) =>
          \E j \in 1..(k - 1) :
             txLog[j].ev = "executeOk" /\ txLog[j].step = txLog[k].step - 1
  /\ \A j, k \in DOMAIN txLog :
       (txLog[j].ev = "executeThrow" /\ j < k) => txLog[k].ev # "execute"
  /\ Len(TxCalls) % 2 = 1 <=> txPc \in {"awaitExecute", "awaitRollback"}

C12_Witness ==
  /\ TxDone
  /\ txN = 4
  /\ TxStepsOf({"execute"}) = <<0, 1, 2>>
  /\ \E t \in TxThrown : t.step = 2
  /\ TxCompensated = <<1, 0>>

\* C13: the step-completion callback, when supplied, is invoked right after
\* each step action that returned (before anything else is started), with
\* the steps in order, once each, and at no other moment: never for a step
\* whose action threw or never started.
C13_StepCallback ==
  /\ \A k \in DOMAIN txLog :
       txLog[k].ev = "onStepComplete" =>
          /\ txOnStepComplete
          /\ k > 1
          /\ txLog[k - 1].ev = "executeOk"
          /\ txLog[k - 1].step + 1 = txLog[k].step
  /\ txOnStepComplete =>
       /\ \A k \in DOMAIN txLog :
            txLog[k].ev = "executeOk" =>
               k < Len(txLog) /\ txLog[k + 1].ev = "onStepComplete"
       /\ TxStepsOf({"onStepComplete"}) = [k \in 1..txCompleted |-> k]

C13_Witness ==
  /\ TxDone
  /\ txOnStepComplete
  /\ TxStepsOf({"onStepComplete"}) = <<1, 2>>
  /\ \E t \in TxThrown : t.step = 2

\* C14 as stated: the rollback callback, when supplied, is invoked once per
\* compensation attempted, in reverse step order, also for those that threw.
C14_RollbackCallback ==
  (TxDone /\ txOnRollback /\ txResult.rolledBack) =>
     TxStepsOf({"onRollback"}) = Descending(txResult.completedSteps)

TxCommittedState ==
  /\ txResult.success = TRUE
  /\ txResult.rolledBack = FALSE
  /\ txResult.error = NoError
  /\ txResult.completedSteps = txN
TxAbortedState ==
  /\ txResult.success = FALSE
  /\ txResult.rolledBack = TRUE
  /\ txResult.error # NoError

\* C15: when every step action and compensation settles, transaction()
\* eventually resolves, whatever step actions, compensations and callbacks
\* throw, and the result is either committed or aborted, never both or
\* neither: success differs from rolledBack.
C15_Terminates ==
  /\ <>TxDone
  /\ [](TxDone =>
          /\ txResult.returned
          /\ TxCommittedState \/ TxAbortedState
          /\ txResult.success # txResult.rolledBack)

C15_Witness ==
  /\ TxDone
  /\ TxAbortedState
  /\ TxCallbackThrew
  /\ \E k \in DOMAIN txLog : txLog[k].ev = "rollbackThrow"
  /\ \E k \in DOMAIN txLog : txLog[k].ev = "consoleError" /\ txLog[k].data = "cbErr"

\* C16: at every point completedSteps is at most the number of step
\* actions that returned, results has completedSteps entries, entry j is the
\* value step j returned, and the returned result, aborted or not, lists
\* them all: the rollback removes none.
C16_CompletedAccounting ==
  /\ txCompleted <= Len(TxEvents({"executeOk"}))
  /\ Len(txResults) = txCompleted
  /\ \A j \in 1..Len(txResults) :
       /\ TxEvents({"executeOk"})[j].step = j - 1
       /\ txResults[j] = TxEvents({"executeOk"})[j].data
  /\ TxDone =>
       /\ txResult.completedSteps = txCompleted
       /\ txResult.completedSteps <= Len(TxEvents({"executeOk"}))
       /\ txResult.results = TxReturned
       /\ Len(txResult.results) = txResult.completedSteps

C16_Witness ==
  /\ TxDone
  /\ txResult.rolledBack
  /\ txResult.completedSteps = 2
  /\ txResult.results = <<"v2", "v1">>
  /\ TxCompensated = <<1, 0>>
  /\ \A k \in DOMAIN txLog : txLog[k].ev # "rollbackThrow"

\* ---------------------------------------------------------- exec: the code
\* One entry of exLog. The duration field of a result is wall-clock time and
\* is left out. Text is a sequence of characters, " " the white space. The
\* commands do not trap the signal child.kill() sends: a killed child ends
\* by that signal. options.onData is taken to return.
ExEv(e, s, t, c) == [ev |-> e, stream |-> s, text |-> t, code |-> c]

White == {" "}
CommandFailed == <<"Command failed">>   \* error.message of a failed command
SpawnFailed == <<"spawn ENOENT">>       \* error.message of a failed spawn
SpawnErrno == "ENOENT"                  \* error.code of a failed spawn
CloseErrno == "-2"                      \* code of the 'close' after 'error'

\* String.prototype.trim
RECURSIVE TrimStart(_)
TrimStart(t) ==
  IF t # <<>> /\ Head(t) \in White THEN TrimStart(Tail(t)) ELSE t

RECURSIVE TrimEnd(_)
TrimEnd(t) ==
  IF t # <<>> /\ t[Len(t)] \in White
  THEN TrimEnd(SubSeq(t, 1, Len(t) - 1))
  ELSE t

Trim(t) == TrimEnd(TrimStart(t))

\* a || b on an exit code: null and 0 are falsy
OrCode(a, b) == IF a \in {NullCode, "0"} THEN b ELSE a
\* a || b on a string: '' is falsy
OrText(a, b) == IF a = <<>> THEN b ELSE a

Dispatch_StreamingFirst(dryRun, onData) ==
  IF onData THEN "streaming" ELSE IF dryRun THEN "dryRun" ELSE "buffered"

\* which of the three paths exec() takes
Dispatch(dryRun, onData) ==
  IF dryRun THEN "dryRun" ELSE IF onData THEN "streaming" ELSE "buffered"

ExResult(out, err, code, ok, command, dry) ==
  [returned |-> TRUE, stdout |-> out, stderr |-> err, exitCode |-> code,
   success |-> ok, command |-> command, dryRun |-> dry]

DryRunResult(command) == ExResult(<<>>, <<>>, "0", TRUE, command, TRUE)

BufferedOkResult(out, err, command) ==
  ExResult(Trim(out), Trim(err), "0", TRUE, command, FALSE)

\* error: what execAsync rejected with
BufferedFailResult(error, command) ==
  ExResult(OrText(Trim(error.stdout), <<>>),
           OrText(OrText(Trim(error.stderr), error.message), <<>>),
           OrCode(error.code, "1"), FALSE, command, FALSE)

StreamCloseResult_SuccessFromCode(code, out, err, command) ==
  ExResult(Trim(out), Trim(err), OrCode(code, "0"),
           code = "0", command, FALSE)

StreamCloseResult(code, out, err, command) ==
  ExResult(Trim(out), Trim(err), OrCode(code, "0"),
           OrCode(code, "0") = "0", command, FALSE)

StreamErrorResult(message, out, command) ==
  ExResult(Trim(out), message, "1", FALSE, command, FALSE)

\* resolve(r): the promise keeps the first value it is resolved with
\* evs: what was observed in the same run, before the resolve
Resolve(evs, r) ==
  /\ exResult' = IF exResult.returned THEN exResult ELSE r
  /\ exPc' = "resolved"
  /\ exLog' = exLog \o evs \o <<ExEv("resolve", "", r.stderr, r.exitCode)>>

ExDataCount == Len(SelectSeq(exLog, LAMBDA r : r.ev = "data"))

\* exec(command, {dryRun: true, ...})
ExCallDryRun ==
  /\ exPc = "call"
  /\ Dispatch(exDryRun, exOnData) = "dryRun"
  /\ Resolve(<<>>, DryRunResult(exCommand))
  /\ UNCHANGED <<exCommand, exDryRun, exOnData, exTimeout, exChild, exTimer,
                 exStdout, exStderr>>
  /\ UNCHANGED notEx

\* execWithStreaming: spawn the child, arm the timer if a timeout is given.
\* spawned: whether the process could be started.
ExCallStreaming ==
  /\ exPc = "call"
  /\ Dispatch(exDryRun, exOnData) = "streaming"
  /\ \E spawned \in BOOLEAN :
       exChild' = IF spawned THEN "running" ELSE "failing"
  /\ exTimer' = exTimeout
  /\ exPc' = "streaming"
  /\ exLog' = Append(exLog, ExEv("spawn", "", <<>>, ""))
  /\ UNCHANGED <<exCommand, exDryRun, exOnData, exTimeout, exStdout, exStderr,
                 exResult>>
  /\ UNCHANGED notEx

\* the buffered path: execAsync(command, opts) with the defaulted timeout
ExCallBuffered ==
  /\ exPc = "call"
  /\ Dispatch(exDryRun, exOnData) = "buffered"
  /\ \E spawned \in BOOLEAN :
       exChild' = IF spawned THEN "running" ELSE "failing"
  /\ exTimer' = OrNum(exTimeout, DefaultTimeout)
  /\ exPc' = "buffered"
  /\ exLog' = Append(exLog, ExEv("spawn", "", <<>>, ""))
  /\ UNCHANGED <<exCommand, exDryRun, exOnData, exTimeout, exStdout, exStderr,
                 exResult>>
  /\ UNCHANGED notEx

\* a bug the 'data' handlers must not have: the chunk is only collected
ExData_Buffered(stream, chunk) ==
  /\ exChild \in {"running", "killed"}
  /\ ExDataCount < MaxChunks
  /\ exStdout' = IF stream = "stdout" THEN exStdout \o chunk ELSE exStdout
  /\ exStderr' = IF stream = "stderr" THEN exStderr \o chunk ELSE exStderr
  /\ exLog' = Append(exLog, ExEv("data", stream, chunk, ""))
  /\ UNCHANGED <<exCommand, exDryRun, exOnData, exTimeout, exPc, exChild,
                 exTimer, exResult>>
  /\ UNCHANGED notEx

\* the child writes a chunk: it is collected, and streamed to onData
ExData(stream, chunk) ==
  /\ exChild \in {"running", "killed"}
  /\ ExDataCount < MaxChunks
  /\ exStdout' = IF stream = "stdout" THEN exStdout \o chunk ELSE exStdout
  /\ exStderr' = IF stream = "stderr" THEN exStderr \o chunk ELSE exStderr
  /\ exLog' = exLog \o <<ExEv("data", stream, chunk, "")>>
                    \o (IF exPc = "streaming"
                        THEN <<ExEv("onData", stream, chunk, "")>>
                        ELSE <<>>)
  /\ UNCHANGED <<exCommand, exDryRun, exOnData, exTimeout, exPc, exChild,
                 exTimer, exResult>>
  /\ UNCHANGED notEx

\* the timeout elapses: the child is killed
ExTimerFires ==
  /\ exTimer > 0
  /\ exChild = "running"
  /\ exChild' = "killed"
  /\ exTimer' = 0
  /\ exLog' = Append(exLog, ExEv("kill", "", <<>>, ""))
  /\ UNCHANGED <<exCommand, exDryRun, exOnData, exTimeout, exPc, exStdout,
                 exStderr, exResult>>
  /\ UNCHANGED notEx

\* streaming: 'close' with the exit code, or null for a child ended by a
\* signal
ExStreamClose(code) ==
  /\ exPc = "streaming"
  /\ \/ exChild = "running"
     \/ exChild = "killed" /\ code = NullCode
  /\ exChild' = "closed"
  /\ exTimer' = 0
  /\ Resolve(<<ExEv("close", "", <<>>, code)>>,
             StreamCloseResult(code, exStdout, exStderr, exCommand))
  /\ UNCHANGED <<exCommand, exDryRun, exOnData, exTimeout, exStdout, exStderr>>
  /\ UNCHANGED notEx

\* streaming: 'error', the process could not be started
ExStreamError ==
  /\ exPc = "streaming"
  /\ exChild = "failing"
  /\ exChild' = "errored"
  /\ exTimer' = 0
  /\ Resolve(<<ExEv("error", "", SpawnFailed, SpawnErrno)>>,
             StreamErrorResult(SpawnFailed, exStdout, exCommand))
  /\ UNCHANGED <<exCommand, exDryRun, exOnData, exTimeout, exStdout, exStderr>>
  /\ UNCHANGED notEx

\* streaming: the 'close' that follows 'error' resolves a second time
ExStreamCloseAfterError ==
  /\ exPc = "resolved"
  /\ exChild = "errored"
  /\ exChild' = "closed"
  /\ exTimer' = 0
  /\ Resolve(<<ExEv("close", "", <<>>, CloseErrno)>>,
             StreamCloseResult(CloseErrno, exStdout, exStderr, exCommand))
  /\ UNCHANGED <<exCommand, exDryRun, exOnData, exTimeout, exStdout, exStderr>>
  /\ UNCHANGED notEx

\* buffered: the child exits with status 0 and execAsync resolves
ExBufferedResolves ==
  /\ exPc = "buffered"
  /\ exChild = "running"
  /\ exChild' = "closed"
  /\ exTimer' = 0
  /\ Resolve(<<ExEv("close", "", <<>>, "0")>>,
             BufferedOkResult(exStdout, exStderr, exCommand))
  /\ UNCHANGED <<exCommand, exDryRun, exOnData, exTimeout, exStdout, exStderr>>
  /\ UNCHANGED notEx

\* buffered: the child exits with another status or ends by a signal, and
\* execAsync rejects
ExBufferedRejects(code) ==
  /\ exPc = "buffered"
  /\ code # "0"
  /\ \/ exChild = "running"
     \/ exChild = "killed" /\ code = NullCode
  /\ exChild' = "closed"
  /\ exTimer' = 0
  /\ Resolve(<<ExEv("close", "", <<>>, code)>>,
             BufferedFailResult([code |-> code, stdout |-> exStdout,
                                 stderr |-> exStderr,
                                 message |-> CommandFailed], exCommand))
  /\ UNCHANGED <<exCommand, exDryRun, exOnData, exTimeout, exStdout, exStderr>>
  /\ UNCHANGED notEx

\* buffered: the process could not be started, and execAsync rejects
ExBufferedSpawnFails ==
  /\ exPc = "buffered"
  /\ exChild = "failing"
  /\ exChild' = "closed"
  /\ exTimer' = 0
  /\ Resolve(<<ExEv("error", "", SpawnFailed, SpawnErrno)>>,
             BufferedFailResult([code |-> SpawnErrno, stdout |-> <<>>,
                                 stderr |-> <<>>,
                                 message |-> SpawnFailed], exCommand))
  /\ UNCHANGED <<exCommand, exDryRun, exOnData, exTimeout, exStdout, exStderr>>
  /\ UNCHANGED notEx

NextExec ==
  \/ ExCallDryRun
  \/ ExCallStreaming
  \/ ExCallBuffered
  \/ \E stream \in {"stdout", "stderr"}, chunk \in Chunks : ExData(stream, chunk)
  \/ ExTimerFires
  \/ \E code \in ExitCodes \cup {NullCode} : ExStreamClose(code)
  \/ ExStreamError
  \/ ExStreamCloseAfterError
  \/ ExBufferedResolves
  \/ \E code \in ExitCodes \cup {NullCode} : ExBufferedRejects(code)
  \/ ExBufferedSpawnFails

InitExec == TxIdle /\ ParIdle /\ RtIdle /\ ExInit /\ RwInit /\ FtIdle /\ PfIdle /\ TsIdle /\ FaIdle /\ PwIdle
SpecExec == InitExec /\ [][NextExec]_vars

\* -------------------------------------------------------- exec: the claims
ExResolved == exPc = "resolved"
ExEvents(evs) == SelectSeq(exLog, LAMBDA r : r.ev \in evs)
\* how the command ended: the first 'close' or 'error' of the child
ExEnding == Head(ExEvents({"close", "error"}))
ExEnded == ExEvents({"close", "error"}) # <<>>
ExKilled == ExEvents({"kill"}) # <<>>

\* C17: a dry run is pure. With dryRun set, exec() spawns no process and
\* calls no callback, at any time, and it resolves with success = true,
\* exitCode = 0, empty stdout and stderr, the command echoed and the dryRun
\* flag set; this holds whether or not onData is supplied, the dry-run check
\* coming before the choice between streaming and buffered execution.
C17_DryRunPurity ==
  exDryRun =>
    /\ ExEvents({"spawn", "data", "onData", "kill", "close", "error"}) = <<>>
    /\ exChild = "none"
    /\ exTimer = 0
    /\ ExResolved =>
         /\ exResult.success = TRUE
         /\ exResult.exitCode = "0"
         /\ exResult.stdout = <<>>
         /\ exResult.stderr = <<>>
         /\ exResult.command = exCommand
         /\ exResult.dryRun = TRUE

\* a dry run of a call that also asks for streaming and a timeout has resolved
C17_Witness ==
  /\ ExResolved
  /\ exDryRun
  /\ exOnData
  /\ exTimeout > 0
  /\ exResult.dryRun = TRUE

\* C18: exec() resolves with success = false for every failing command: a
\* non-zero exit status, an end by a signal and a failure to spawn (whose
\* text is then in stderr), in buffered and in streaming mode, and the
\* promise keeps the one outcome it was first resolved with.
C18_FailureResolvesFalse ==
  (ExResolved /\ ~exDryRun) =>
    /\ (ExEnding.ev = "error" \/ ExEnding.code # "0") =>
         exResult.success = FALSE
    /\ ExEnding.ev = "error" => exResult.stderr = ExEnding.text
    /\ exResult.exitCode = Head(ExEvents({"resolve"})).code

\* C19: once the timeout has elapsed and the child was killed, the outcome
\* reports a failure: success = false and a non-zero exit code, in buffered
\* and in streaming mode.
C19_TimeoutFails ==
  (ExResolved /\ ExKilled) =>
    /\ exResult.success = FALSE
    /\ exResult.exitCode # "0"

\* C20: in every outcome of exec() (dry run, buffered, streaming; normal
\* exit, error exit, spawn failure, end by a signal) success is true exactly
\* when exitCode is 0.
C20_SuccessIffZero ==
  ExResolved => (exResult.success <=> exResult.exitCode = "0")

\* a streamed command that exited with status 2 is reported as a failure
\* with exit code 2
C20_Witness ==
  /\ ExResolved
  /\ exOnData
  /\ ~exDryRun
  /\ ExEnded
  /\ ExEnding.code = "2"
  /\ exResult.exitCode = "2"
  /\ exResult.success = FALSE

\* ---------------------------------------------- retryWithResult: the claims
RwResolved == rwResult.returned

\* C21: retryWithResult() resolves, never rejects: with success = true and
\* the operation's value exactly when retry() returned, otherwise with
\* success = false and the RetryError retry() threw as error; the operation
\* was invoked as often as retry() invokes it: once more than it failed on
\* success, attempts times on exhaustion.
C21_NeverRejects ==
  RwResolved =>
    /\ RtSettled
    /\ rwResult.success <=> rtOutcome.kind = "returned"
    /\ rwResult.success =>
         /\ rwResult.result = rtOutcome.value
         /\ rwResult.result = RtResolves[1].data
         /\ RtCalls = Len(RtRejects) + 1
    /\ ~rwResult.success =>
         /\ rwResult.error = rtOutcome.error
         /\ rwResult.error.name = "RetryError"
         /\ Len(RtResolves) = 0
         /\ RtCalls = rtAttempts

\* a call with attempts = 2 whose operation failed twice has resolved with
\* success = false
C21_Witness ==
  /\ RwResolved
  /\ ~rwResult.success
  /\ rtAttempts = 2
  /\ Len(RtRejects) = 2
  /\ rwResult.error = RetryError(RtRejects[2].data, 2)

\* C22: the attempts field of the Retry Outcome equals the number of times
\* the operation was invoked, on success and on exhaustion.
C22_AttemptsMade ==
  RwResolved => rwResult.attempts = RtCalls

\* ------------------------------------- parallel: the claims, second sequel
\* C23: a numeric configuration outside the contract fails fast: retry()
\* with attempts < 1 throws without invoking the operation, and parallel()
\* with concurrency < 1 on a non-empty task list does not resolve with
\* successful = 0 and failed = 0 while no task was run.
C23_FailFast ==
  /\ (rtPc # "idle" /\ rtAttempts < 1) =>
       /\ RtCalls = 0
       /\ rtPc \in {"loop", "thrown"}
  /\ (ParReturned /\ parConcurrency < 1 /\ parN > 0) =>
       ~(/\ parResult.settled = "resolved"
         /\ parResult.successful = 0
         /\ parResult.failed = 0
         /\ \A i \in ParTasks : parStarts[i] = 0)

\* C24: the result handed back is immutable. Once parallel() has resolved,
\* no task it started is still in flight, the returned results array holds
\* what it held at the return, and the progress callback has not been called
\* with a count beyond the tasks completed at the return, for both
\* stopOnError settings and every concurrency.
C24_ImmutableResult ==
  ParReturned =>
    /\ ParInFlight = {}
    /\ parResults = parResult.atReturn
    /\ \A k \in DOMAIN parProgress :
         parProgress[k][1] <= parResult.successful + parResult.failed

\* the workers waiting for the task with index i
ParWaitingFor(i) ==
  {w \in DOMAIN parWorkers : parWorkers[w] = [pc |-> "awaitTask", task |-> i]}

\* C29: with stopOnError = true no task in flight is ever cancelled, neither
\* when another task fails nor when parallel() returns: a worker keeps
\* waiting for it, and once it has settled its own slot holds its value or
\* its error.
C29_NoCancellation ==
  parStopOnError =>
    /\ \A i \in ParInFlight : ParWaitingFor(i) # {}
    /\ \A i \in ParTasks :
         parOutcome[i] # "pending" => SlotHoldsTask(parResults[i], i)

\* a task that was in flight when parallel() returned after a failure has
\* since completed and written its value into its slot
C29_Witness ==
  /\ parStopOnError
  /\ ParReturned
  /\ parResult.failed > 0
  /\ \E i \in ParTasks :
       /\ parResult.atReturn[i] = EmptySlot
       /\ parResults[i] = TaskValue(i)

\* C30: claiming is atomic: no task index is claimed twice, by the same or by
\* another worker, so every task is started at most once and no two workers
\* wait for the same task; with stopOnError = false and concurrency >= 1
\* every task has been started exactly once when parallel() returns.
C30_AtomicClaim ==
  /\ \A i \in ParTasks :
       /\ parStarts[i] <= 1
       /\ Cardinality(ParWaitingFor(i)) <= 1
       /\ parStarts[i] = 1 <=> i < parIndex
  /\ (ParReturned /\ ~parStopOnError /\ parConcurrency >= 1) =>
       \A i \in ParTasks : parStarts[i] = 1

\* four tasks shared by two workers have all been started once
C30_Witness ==
  /\ ParReturned
  /\ ~parStopOnError
  /\ parN = 4
  /\ parConcurrency = 2
  /\ \A i \in ParTasks : parStarts[i] = 1

\* ----------------------------------------------- fileTransaction: the code
\* The file exists and is readable and writable; only the modifier can fail.
\* The bytes of a file written by the step are well-formed UTF-8, so Decode
\* never meets a truncated sequence.

\* fs.readFile(filePath, 'utf-8'): UTF-8 decoding, a byte that is no part of
\* a well-formed sequence becomes U+FFFD
RECURSIVE Decode(_)
Decode(bytes) ==
  IF bytes = <<>> THEN <<>>
  ELSE IF Head(bytes) \in Ascii THEN <<Head(bytes)>> \o Decode(Tail(bytes))
  ELSE IF Len(bytes) >= 3 /\ SubSeq(bytes, 1, 3) = ReplacementBytes
       THEN <<Replacement>> \o Decode(SubSeq(bytes, 4, Len(bytes)))
  ELSE <<Replacement>> \o Decode(Tail(bytes))

\* fs.writeFile(filePath, text): UTF-8 encoding
RECURSIVE Encode(_)
Encode(text) ==
  IF text = <<>> THEN <<>>
  ELSE (IF Head(text) = Replacement THEN ReplacementBytes ELSE <<Head(text)>>)
       \o Encode(Tail(text))

\* modifier(backup), when it returns
Modify(kind, content) ==
  CASE kind = "append" -> Append(content, "b")
    [] kind = "clear" -> <<>>
    [] OTHER -> content

FtEv(op, wrote) == [op |-> op, wrote |-> wrote]

\* execute: backup = await fs.readFile(filePath, 'utf-8'); modifier(backup)
FtExecuteReads ==
  /\ ftPc = "ready"
  /\ Len(ftLog) < MaxFileOps
  /\ ftBackup' = [set |-> TRUE, text |-> Decode(ftFile)]
  /\ ftAtStart' = ftFile
  /\ ftPc' = "modifying"
  /\ UNCHANGED <<ftFile, ftModifier, ftLog>>
  /\ UNCHANGED notFt

\* execute: the modifier returned; await fs.writeFile(filePath, modified)
FtModifierReturns ==
  /\ ftPc = "modifying"
  /\ ftModifier # "throws"
  /\ ftFile' = Encode(Modify(ftModifier, ftBackup.text))
  /\ ftPc' = "ready"
  /\ ftLog' = Append(ftLog, FtEv("execute", TRUE))
  /\ UNCHANGED <<ftModifier, ftBackup, ftAtStart>>
  /\ UNCHANGED notFt

\* execute: the modifier threw, execute rejects
FtModifierThrows ==
  /\ ftPc = "modifying"
  /\ ftModifier = "throws"
  /\ ftPc' = "ready"
  /\ ftLog' = Append(ftLog, FtEv("executeFailed", FALSE))
  /\ UNCHANGED <<ftFile, ftModifier, ftBackup, ftAtStart>>
  /\ UNCHANGED notFt

\* rollback: if (backup !== undefined) await fs.writeFile(filePath, backup)
FtRollback ==
  /\ ftPc = "ready"
  /\ Len(ftLog) < MaxFileOps
  /\ ftFile' = IF ftBackup.set THEN Encode(ftBackup.text) ELSE ftFile
  /\ ftLog' = Append(ftLog, FtEv("rollback", ftBackup.set))
  /\ UNCHANGED <<ftModifier, ftBackup, ftPc, ftAtStart>>
  /\ UNCHANGED notFt

NextFile ==
  \/ FtExecuteReads
  \/ FtModifierReturns
  \/ FtModifierThrows
  \/ FtRollback

InitFile == TxIdle /\ ParIdle /\ RtIdle /\ ExIdle /\ RwInit /\ FtInit /\ PfIdle /\ TsIdle /\ FaIdle /\ PwIdle
SpecFile == InitFile /\ [][NextFile]_vars

\* --------------------------------------------- fileTransaction: the claims
\* C25: the round trip of a fileTransaction step. When the action has run
\* and the compensation ran right after it, the file holds exactly the bytes
\* it held when the action started; and a compensation called before the
\* action ever ran writes nothing.
C25_RoundTrip ==
  /\ LET n == Len(ftLog)
     IN (/\ n >= 2
         /\ ftPc = "ready"
         /\ ftLog[n].op = "rollback"
         /\ ftLog[n - 1].op = "execute") => ftFile = ftAtStart
  /\ \A k \in DOMAIN ftLog :
       (\A j \in 1..k : ftLog[j].op = "rollback") => ~ftLog[k].wrote

\* ------------------------------------------------ parallelFilter: the code
\* the items, as their indices in order
RECURSIVE Indices(_)
Indices(n) == IF n <= 0 THEN <<>> ELSE Append(Indices(n - 1), n - 1)

\* what the predicate of item i resolves with, when it resolves
PredicateValue(i) == i \in pfKeep

\* !(predicateResult instanceof Error) && predicateResult === true, for the
\* slot of item i
FilterKeeps(slot, i) ==
  /\ slot.kind # "error"
  /\ slot.kind = "value" /\ PredicateValue(i)

\* items.filter((_, index) => ...)
FilterItems(results) ==
  SelectSeq(Indices(parN), LAMBDA i : FilterKeeps(results[i], i))

\* parallelFilter(items, predicate, options) is called: the items are tasks
\* of parallel(), and each predicate resolves with true or false or rejects
PfInit ==
  /\ ParInit
  /\ pfKeep \in SUBSET ParTasks
  /\ pfResult = NoResult

\* await parallelMap(...) resolved: return items.filter(...)
PfReturns ==
  /\ ParReturned
  /\ ~pfResult.returned
  /\ pfResult' = [returned |-> TRUE, items |-> FilterItems(parResults)]
  /\ UNCHANGED pfKeep
  /\ UNCHANGED notPf

NextParallelFilter ==
  \/ NextParallel
  \/ PfReturns

InitParallelFilter ==
  TxIdle /\ RtIdle /\ ExIdle /\ RwInit /\ FtIdle /\ PfInit /\ TsIdle /\ FaIdle /\ PwIdle
SpecParallelFilter == InitParallelFilter /\ [][NextParallelFilter]_vars

\* ---------------------------------------------- parallelFilter: the claims
PfReturned == pfResult.returned
\* the items whose predicate resolved to true
PfTrue == {i \in ParTasks : parOutcome[i] = "value" /\ PredicateValue(i)}
\* the items whose predicate is still to settle
PfPending == {i \in ParTasks : parOutcome[i] = "pending"}

\* C26: parallelFilter() resolves, also when a predicate throws, with
\* exactly the items whose predicate resolved to true, in their original
\* relative order, whatever the concurrency and the order of completion.
C26_FilterExact ==
  (PfReturned /\ PfPending = {}) =>
    /\ \A i \in ParTasks :
         (\E k \in DOMAIN pfResult.items : pfResult.items[k] = i) <=> i \in PfTrue
    /\ \A k \in DOMAIN pfResult.items :
         \A l \in DOMAIN pfResult.items :
           k < l => pfResult.items[k] < pfResult.items[l]

\* ------------------------------------------------ exec: the claims, sequel
\* C27: every exec() call that is not a dry run runs under a timeout: while
\* its child runs a timer is armed, with the caller's timeout or, when the
\* caller gave none, with 120000 ms, in buffered and in streaming mode.
C27_AlwaysTimeout ==
  (exPc \in {"buffered", "streaming"} /\ exChild = "running") =>
    /\ exTimer > 0
    /\ exTimer = IF exTimeout = 0 THEN DefaultTimeout ELSE exTimeout

\* ---------------------------------- transaction: the claims, second sequel
\* the throw of a step-completion callback, as logged
TxCallbackThrows == TxEvents({"onStepCompleteThrow"})

\* C28: a step-completion callback that throws right after step i completed
\* is treated like a step failure: no later step is started, the sweep
\* compensates the steps i, i-1, .., 0, step i included, and transaction()
\* returns success = false, rolledBack = true and the callback's exception as
\* error.
C28_OrchestrationFailure ==
  TxCallbackThrew =>
    LET i == TxCallbackThrows[1].step - 1
    IN /\ Len(TxCallbackThrows) = 1
       /\ TxStepsOf({"execute"}) = [k \in 1..(i + 1) |-> k - 1]
       /\ TxThrown = {}
       /\ \A k \in DOMAIN TxCompensated : TxCompensated[k] = i + 1 - k
       /\ TxDone =>
            /\ TxCompensated = Descending(i + 1)
            /\ txResult.success = FALSE
            /\ txResult.rolledBack = TRUE
            /\ txResult.error = TxCallbackThrows[1].data
            /\ txResult.completedSteps = i + 1

\* the callback threw after the third step: steps 2, 1, 0 were compensated
C28_Witness ==
  /\ TxDone
  /\ TxCallbackThrew
  /\ TxCallbackThrows[1].step = 3
  /\ txN = 4
  /\ TxCompensated = <<2, 1, 0>>
  /\ txResult.error \in CbErrs

C32_StepOrder ==
  /\ \A j \in DOMAIN rtLog :
       LET r == rtLog[j]
       IN /\ (r.ev = "reject" /\ r.step < rtAttempts) =>
               IF rtOnRetry
               THEN /\ rtLog[j + 1].ev = "onRetry"
                    /\ rtLog[j + 1].step = r.step
                    /\ rtLog[j + 1].data = r.data
                    /\ rtLog[j + 2].ev = "sleep"
                    /\ rtLog[j + 2].step = r.step
               ELSE /\ rtLog[j + 1].ev = "sleep"
                    /\ rtLog[j + 1].step = r.step
          /\ (r.ev = "reject" /\ r.step >= rtAttempts) => j = Len(rtLog)
          /\ r.ev = "onRetry" => rtOnRetry /\ rtLog[j - 1].ev = "reject"
          /\ r.ev = "sleep" => rtLog[j - 1].ev \in {"reject", "onRetry"}
          /\ (r.ev = "sleep" /\ j < Len(rtLog)) =>
               /\ rtLog[j + 1].ev = "wake"
               /\ rtLog[j + 1].step = r.step
          /\ (r.ev = "call" /\ r.step > 1) =>
               /\ rtLog[j - 1].ev = "wake"
               /\ rtLog[j - 1].step = r.step - 1
          /\ (r.ev = "call" /\ r.step = 1) => j = 1
  /\ rtAttempts = 1 =>
       /\ RtEvents({"onRetry", "sleep"}) = <<>>
       /\ RtCalls <= 1

\* two failures, each followed by callback, sleep and wake, then a third try
C32_Witness ==
  /\ rtOnRetry
  /\ rtAttempts = 3
  /\ Len(rtLog) = 12
  /\ [k \in 1..12 |-> rtLog[k].ev] =
       <<"call", "reject", "onRetry", "sleep", "wake",
         "call", "reject", "onRetry", "sleep", "wake", "call", "reject">>

\* the backoff sleeps, as logged: step is the failed attempt, data the delay
RtSleeps == RtEvents({"sleep"})

\* C33: the delay slept after failed attempt k is
\* min(base * 2^(k-1) + jitter, maxBackoff) for a jitter in [0, 1000): it
\* never exceeds maxBackoff and is never below min(base * 2^(k-1),
\* maxBackoff), and a sleep only follows an attempt k < attempts.
C33_BackoffBound ==
  \A j \in DOMAIN RtSleeps :
    LET k == RtSleeps[j].step
        d == RtSleeps[j].data
        exp == rtBackoff * Pow2(k - 1)
    IN /\ k < rtAttempts
       /\ d <= rtMaxBackoff
       /\ d >= Min(exp, rtMaxBackoff)
       /\ \E jitter \in 0..(JitterRange - 1) : d = Min(exp + jitter, rtMaxBackoff)

\* base 1000, maxBackoff 1500: the first delay has jitter added and is
\* capped, the second is capped at 1500 although 2000 was computed
C33_Witness ==
  /\ rtBackoff = DefaultBackoff
  /\ rtMaxBackoff = 1500
  /\ Len(RtSleeps) = 3
  /\ RtSleeps[1].data = 1000
  /\ RtSleeps[2].data = 1500
  /\ RtSleeps[3].step = 3 /\ RtSleeps[3].data = 1500

\* --------------------------------------- exec: the claims, second sequel
RECURSIVE ConcatTexts(_)
ConcatTexts(evs) ==
  IF evs = <<>> THEN <<>> ELSE Head(evs).text \o ConcatTexts(Tail(evs))

\* the text delivered to onData for a stream, in delivery order
ExDelivered(stream) ==
  ConcatTexts(SelectSeq(exLog, LAMBDA r : r.ev = "onData" /\ r.stream = stream))

\* every chunk the child wrote went to onData at once, tagged by its stream,
\* and before exec() resolved
ExStreamedAsProduced ==
  \A j \in DOMAIN exLog :
    /\ exLog[j].ev = "data" =>
         /\ j < Len(exLog)
         /\ exLog[j + 1].ev = "onData"
         /\ exLog[j + 1].stream = exLog[j].stream
         /\ exLog[j + 1].text = exLog[j].text
    /\ exLog[j].ev = "onData" =>
         /\ exLog[j - 1].ev = "data"
         /\ \A i \in 1..j : exLog[i].ev # "resolve"

\* C34 as stated: with onData supplied every chunk is passed to the callback
\* with its stream, as it is produced and before exec() resolves, and the
\* outcome's stdout and stderr are the trimmed concatenations of the chunks
\* delivered for that stream.
C34_StreamingOriginal ==
  (exOnData /\ ~exDryRun) =>
    /\ ExStreamedAsProduced
    /\ ExResolved =>
         /\ exResult.stdout = Trim(ExDelivered("stdout"))
         /\ exResult.stderr = Trim(ExDelivered("stderr"))

\* C34 amended: as above, except that after a failure to spawn the outcome's
\* stderr is the text of the spawn failure.
C34_Streaming ==
  (exOnData /\ ~exDryRun) =>
    /\ ExStreamedAsProduced
    /\ ExResolved =>
         /\ exResult.stdout = Trim(ExDelivered("stdout"))
         /\ exResult.stderr = IF ExEnding.ev = "error"
                              THEN ExEnding.text
                              ELSE Trim(ExDelivered("stderr"))

\* a padded chunk on stdout and a chunk on stderr were streamed and are in
\* the outcome, trimmed
C34_Witness ==
  /\ ExResolved
  /\ exOnData
  /\ ~exDryRun
  /\ ExDelivered("stdout") = <<" ", "y", " ">>
  /\ ExDelivered("stderr") = <<"x">>
  /\ exResult.stdout = <<"y">>
  /\ exResult.stderr = <<"x">>

\* ----------------------------------------------- transactionStep: the code
\* execute or rollback of the step is called: each runs exec(cmd) without
\* options, the buffered path
TsInit ==
  /\ ExInit
  /\ ~exDryRun /\ ~exOnData /\ exTimeout = 0
  /\ tsCalled \in {"execute", "rollback"}
  /\ tsOutcome = "pending"

\* execute: result.success, return result
TsExecuteReturns ==
  /\ tsCalled = "execute"
  /\ tsOutcome = "pending"
  /\ exPc = "resolved"
  /\ exResult.success
  /\ tsOutcome' = "returned"
  /\ UNCHANGED tsCalled
  /\ UNCHANGED notTs

\* execute: if (!result.success) throw new Error(...)
TsExecuteThrows ==
  /\ tsCalled = "execute"
  /\ tsOutcome = "pending"
  /\ exPc = "resolved"
  /\ ~exResult.success
  /\ tsOutcome' = "thrown"
  /\ UNCHANGED tsCalled
  /\ UNCHANGED notTs

\* a bug rollback must not have: a failed rollback command throws
TsRollbackReturns_Checks ==
  /\ tsCalled = "rollback"
  /\ tsOutcome = "pending"
  /\ exPc = "resolved"
  /\ tsOutcome' = IF exResult.success THEN "returned" ELSE "thrown"
  /\ UNCHANGED tsCalled
  /\ UNCHANGED notTs

\* rollback: await exec(rollbackCmd), the outcome is dropped
TsRollbackReturns ==
  /\ tsCalled = "rollback"
  /\ tsOutcome = "pending"
  /\ exPc = "resolved"
  /\ tsOutcome' = "returned"
  /\ UNCHANGED tsCalled
  /\ UNCHANGED notTs

NextTransactionStep ==
  \/ ExCallBuffered
  \/ \E stream \in {"stdout", "stderr"}, chunk \in Chunks : ExData(stream, chunk)
  \/ ExTimerFires
  \/ ExBufferedResolves
  \/ \E code \in ExitCodes \cup {NullCode} : ExBufferedRejects(code)
  \/ ExBufferedSpawnFails
  \/ TsExecuteReturns
  \/ TsExecuteThrows
  \/ TsRollbackReturns

InitTransactionStep ==
  TxIdle /\ ParIdle /\ RtIdle /\ RwInit /\ FtIdle /\ PfIdle /\ TsInit /\ FaIdle /\ PwIdle
SpecTransactionStep == InitTransactionStep /\ [][NextTransactionStep]_vars

\* --------------------------------------------- transactionStep: the claims
\* C35: the action of a step built by transactionStep() throws exactly when
\* the outcome of its execute command has success = false; its compensation
\* runs the rollback command exactly once and returns, never throws, also
\* when the rollback command failed.
C35_CommandStep ==
  tsOutcome # "pending" =>
    /\ ExResolved
    /\ Len(ExEvents({"spawn"})) = 1
    /\ exResult.command = exCommand
    /\ tsCalled = "execute" => (tsOutcome = "thrown" <=> ~exResult.success)
    /\ tsCalled = "rollback" => tsOutcome = "returned"

\* the rollback command exited with status 2 and the compensation returned
C35_Witness ==
  /\ tsCalled = "rollback"
  /\ tsOutcome = "returned"
  /\ ~exResult.success
  /\ exResult.exitCode = "2"

\* ------------------------- transaction of fileTransaction steps: the code
\* The steps are run by transaction() without callbacks. As for one step,
\* the files exist and every read and write succeeds; a step fails only
\* because its modifier throws.
Files == {"f1", "f2"}
FileSteps == [file : Files, modifier : {"append", "clear", "throws"}]

FaInit ==
  /\ faFiles \in [Files -> SeqsUpTo({"a", "xFF"}, MaxFileLen)]
  /\ \E n \in 1..MaxFileSteps : faSteps \in [1..n -> FileSteps]
  /\ faBackups = [k \in DOMAIN faSteps |-> NoBackup]
  /\ faPc = "loop"
  /\ faI = 1
  /\ faCompleted = 0
  /\ faOrig = faFiles

\* loop head and execute of step i: backup = await fs.readFile(...)
FaExecuteReads ==
  /\ faPc = "loop"
  /\ faI <= Len(faSteps)
  /\ faBackups' = [faBackups EXCEPT
                     ![faI] = [set |-> TRUE,
                               text |-> Decode(faFiles[faSteps[faI].file])]]
  /\ faPc' = "modifying"
  /\ UNCHANGED <<faFiles, faSteps, faI, faCompleted, faOrig>>
  /\ UNCHANGED notFa

\* the modifier returned: writeFile, return modified; push, completedSteps++
FaModifierReturns ==
  /\ faPc = "modifying"
  /\ faSteps[faI].modifier # "throws"
  /\ faFiles' = [faFiles EXCEPT
                   ![faSteps[faI].file] =
                      Encode(Modify(faSteps[faI].modifier, faBackups[faI].text))]
  /\ faCompleted' = faCompleted + 1
  /\ faI' = faI + 1
  /\ faPc' = "loop"
  /\ UNCHANGED <<faSteps, faBackups, faOrig>>
  /\ UNCHANGED notFa

\* the modifier threw: catch, rollbackSteps(steps.slice(0, completedSteps))
FaModifierThrows ==
  /\ faPc = "modifying"
  /\ faSteps[faI].modifier = "throws"
  /\ faI' = RollbackFirst(RollbackSlice(faI - 1, faCompleted)) + 1
  /\ faPc' = "rbLoop"
  /\ UNCHANGED <<faFiles, faSteps, faBackups, faCompleted, faOrig>>
  /\ UNCHANGED notFa

\* rollbackSteps: the compensation of one step, in reverse order
FaRollbackStep ==
  /\ faPc = "rbLoop"
  /\ RollbackMore(faI - 1)
  /\ faFiles' = IF faBackups[faI].set
                THEN [faFiles EXCEPT
                        ![faSteps[faI].file] = Encode(faBackups[faI].text)]
                ELSE faFiles
  /\ faI' = RollbackNext(faI - 1) + 1
  /\ UNCHANGED <<faSteps, faBackups, faPc, faCompleted, faOrig>>
  /\ UNCHANGED notFa

\* rollbackSteps returned: return { success: false, rolledBack: true, .. }
FaAbort ==
  /\ faPc = "rbLoop"
  /\ ~RollbackMore(faI - 1)
  /\ faPc' = "aborted"
  /\ UNCHANGED <<faFiles, faSteps, faBackups, faI, faCompleted, faOrig>>
  /\ UNCHANGED notFa

\* every step completed: return { success: true, rolledBack: false, .. }
FaCommit ==
  /\ faPc = "loop"
  /\ faI > Len(faSteps)
  /\ faPc' = "committed"
  /\ UNCHANGED <<faFiles, faSteps, faBackups, faI, faCompleted, faOrig>>
  /\ UNCHANGED notFa

NextFileTransaction ==
  \/ FaExecuteReads
  \/ FaModifierReturns
  \/ FaModifierThrows
  \/ FaRollbackStep
  \/ FaAbort
  \/ FaCommit

InitFileTransaction ==
  TxIdle /\ ParIdle /\ RtIdle /\ ExIdle /\ RwInit /\ FtIdle /\ PfIdle /\ TsIdle /\ FaInit /\ PwIdle
SpecFileTransaction == InitFileTransaction /\ [][NextFileTransaction]_vars

\* ----------------------- transaction of fileTransaction steps: the claims
\* C36: when a transaction of fileTransaction steps, several of which may
\* modify the same file, has aborted because the modifier of a step threw,
\* every file holds exactly the bytes it held before the transaction.
C36_FileAtomicity ==
  faPc = "aborted" => faFiles = faOrig

\* --------------------------------------------- parallelWithRetry: the code
\* Each task of parallel() is () => retry(task, { attempts, backoff }): the
\* task function of parallel() is called once, and retry() invokes the
\* original task, again after each backoff sleep. The delays are left out.
PwInit ==
  /\ ParInit
  /\ parN <= MaxRetryTasks
  /\ ~parOnProgress
  /\ pwAttempts \in 0..MaxRetryAttempts
  /\ pwRetries = [i \in ParTasks |-> 0]
  /\ pwSleeping = {}

\* how often the original task i was invoked: retry() with attempts < 1
\* never invokes it
PwInvocations(i) ==
  IF pwAttempts < 1 THEN 0 ELSE parStarts[i] + pwRetries[i]

\* a bug retry() must not have: it goes on after the last attempt
PwAttemptFails_Unbounded(i) ==
  /\ parStarts[i] > 0 /\ parOutcome[i] = "pending"
  /\ i \notin pwSleeping
  /\ pwAttempts >= 1
  /\ pwSleeping' = pwSleeping \cup {i}
  /\ UNCHANGED <<pwAttempts, pwRetries>>
  /\ UNCHANGED notPw

\* retry(): an attempt of task i failed and attempt < attempts: sleep
PwAttemptFails(i) ==
  /\ parStarts[i] > 0 /\ parOutcome[i] = "pending"
  /\ i \notin pwSleeping
  /\ WillRetry(PwInvocations(i), pwAttempts)
  /\ pwSleeping' = pwSleeping \cup {i}
  /\ UNCHANGED <<pwAttempts, pwRetries>>
  /\ UNCHANGED notPw

\* retry(): the sleep is over, the next attempt invokes task i
PwWake(i) ==
  /\ i \in pwSleeping
  /\ pwSleeping' = pwSleeping \ {i}
  /\ pwRetries' = [pwRetries EXCEPT ![i] = @ + 1]
  /\ UNCHANGED pwAttempts
  /\ UNCHANGED notPw

\* retry(): an attempt succeeded, return result; executeTask, try branch
PwTaskResolves(w) ==
  /\ parWorkers[w].pc = "awaitTask"
  /\ parWorkers[w].task \notin pwSleeping
  /\ pwAttempts >= 1
  /\ ParTaskResolves(w)

\* retry(): the attempts are used up, throw new RetryError; executeTask,
\* catch branch
PwTaskRejects(w) ==
  /\ parWorkers[w].pc = "awaitTask"
  /\ parWorkers[w].task \notin pwSleeping
  /\ ~WillRetry(PwInvocations(parWorkers[w].task), pwAttempts)
  /\ ParTaskRejects(w)

NextParallelWithRetry ==
  \/ ParStart
  \/ \E w \in DOMAIN parWorkers : PwTaskResolves(w)
  \/ \E w \in DOMAIN parWorkers : PwTaskRejects(w)
  \/ \E i \in ParTasks : PwAttemptFails(i)
  \/ \E i \in ParTasks : PwWake(i)
  \/ \E w \in DOMAIN parWorkers : ParWorkerClaims(w)
  \/ \E w \in DOMAIN parWorkers : ParWorkerExits(w)
  \/ \E w \in DOMAIN parWorkers : ParWorkerRejects(w)
  \/ ParReturns
  \/ ParReturnsAfterError

InitParallelWithRetry ==
  TxIdle /\ RtIdle /\ ExIdle /\ RwInit /\ FtIdle /\ PfIdle /\ TsIdle /\ FaIdle /\ PwInit
SpecParallelWithRetry == InitParallelWithRetry /\ [][NextParallelWithRetry]_vars

C38_StepNumbering ==
  /\ \A k \in DOMAIN txLog :
       txLog[k].ev = "onStepComplete" =>
          /\ k > 1
          /\ txLog[k - 1].ev = "executeOk"
          /\ txLog[k].step = txLog[k - 1].step + 1
          /\ txLog[k].step \in 1..txN
          /\ txLog[k].data = txN
  /\ \A k \in DOMAIN txLog :
       txLog[k].ev = "onRollback" =>
          /\ k > 1
          /\ txLog[k - 1].ev = "rollbackOk"
          /\ txLog[k].step = txLog[k - 1].step
          /\ txLog[k].step \in 0..(txCompleted - 1)
          /\ txLog[k].step \in TxOkSteps
  /\ (TxDone /\ TxCommitted /\ txOnStepComplete /\ txN > 0) =>
       LET cbs == TxEvents({"onStepComplete"})
       IN  /\ Len(cbs) = txN
           /\ cbs[Len(cbs)].step = txN
           /\ cbs[Len(cbs)].data = txN

C38_Witness ==
  /\ TxDone
  /\ txOnStepComplete /\ txOnRollback
  /\ txN = 3
  /\ TxStepsOf({"onStepComplete"}) = <<1, 2>>
  /\ TxStepsOf({"onRollback"}) = <<1, 0>>
  /\ \E t \in TxThrown : t.step = 2

====
